---------------------------- MODULE Spec2Model ----------------------------
(***************************************************************************)
(* a2a-weather: the JSON-RPC bridge (servicenow_handler.py), the agent     *)
(* executor (agent_executor.py) and the weather agent's skills             *)
(* (weather_agent.py) as a state machine.                                  *)
(*                                                                         *)
(* Texts are sequences of character codes, so that the regular expressions *)
(* and the substring tests of the intent classifier are computed, not      *)
(* assumed.  Identifiers (JSON-RPC ids, task ids, session ids) are         *)
(* integers: 0 is Python's None, small positive numbers are values sent by *)
(* the client, Uuid(r, k) is the k-th uuid4 drawn while serving request r. *)
(***************************************************************************)
EXTENDS Integers, Sequences, FiniteSets, TLC

\* ------------------------------------------------------------------------
\* Characters and str methods
\* ------------------------------------------------------------------------

\* str.isspace, and \s, over ASCII
Space == 9..13 \cup 28..32

Digit == 48..57

WordChar == 48..57 \cup 65..90 \cup 97..122 \cup {95}

LowerChar(c) == IF c \in 65..90 THEN c + 32 ELSE c

UpperChar(c) == IF c \in 97..122 THEN c - 32 ELSE c

\* a character class under re.IGNORECASE
IC(S) == S \cup {LowerChar(c) : c \in S} \cup {UpperChar(c) : c \in S}

\* str.lower
Lower(s) == [i \in 1..Len(s) |-> LowerChar(s[i])]

RECURSIVE LStrip(_)
LStrip(s) == IF Len(s) > 0 /\ s[1] \in Space THEN LStrip(Tail(s)) ELSE s

RECURSIVE RStrip(_)
RStrip(s) ==
    IF Len(s) > 0 /\ s[Len(s)] \in Space THEN RStrip(SubSeq(s, 1, Len(s) - 1)) ELSE s

\* str.strip
Strip(s) == RStrip(LStrip(s))

\* sub in s
Contains(s, sub) ==
    \E i \in 1..(Len(s) - Len(sub) + 1) : SubSeq(s, i, i + Len(sub) - 1) = sub

\* any(w in s for w in words)
AnyIn(words, s) == \E k \in 1..Len(words) : Contains(s, words[k])

\* len(s.split()): the whitespace-separated words of s
WordCount(s) ==
    Cardinality({i \in 1..Len(s) : s[i] \notin Space /\ (i = 1 \/ s[i - 1] \in Space)})

\* int() of a run of ASCII digits
RECURSIVE ToInt(_)
ToInt(ds) == IF Len(ds) = 0 THEN 0 ELSE 10 * ToInt(SubSeq(ds, 1, Len(ds) - 1)) + (ds[Len(ds)] - 48)

\* ------------------------------------------------------------------------
\* Regular expressions: Python's backtracking matcher over the parsed pattern
\* ------------------------------------------------------------------------

In(S) == [op |-> "in", cs |-> S]

AtEnd == [op |-> "at_end"]

AtBoundary == [op |-> "at_boundary"]

Branch(bs) == [op |-> "branch", bs |-> bs]

\* {lo,hi} and {lo,hi}? ; the From forms are {lo,} and {lo,}? (+, *, +?, *?)
MaxRepeat(lo, hi, body) ==
    [op |-> "repeat", greedy |-> TRUE, lo |-> lo, hi |-> hi, unbounded |-> FALSE, body |-> body]

MinRepeat(lo, hi, body) ==
    [op |-> "repeat", greedy |-> FALSE, lo |-> lo, hi |-> hi, unbounded |-> FALSE, body |-> body]

MaxRepeatFrom(lo, body) ==
    [op |-> "repeat", greedy |-> TRUE, lo |-> lo, hi |-> lo, unbounded |-> TRUE, body |-> body]

MinRepeatFrom(lo, body) ==
    [op |-> "repeat", greedy |-> FALSE, lo |-> lo, hi |-> lo, unbounded |-> TRUE, body |-> body]

GroupOpen(n) == [op |-> "open", n |-> n]

GroupClose(n) == [op |-> "close", n |-> n]

\* a run of literal characters: cs[j] is the set the j-th character may come from
Lit(s) == <<[op |-> "literal", cs |-> [j \in 1..Len(s) |-> {s[j]}]]>>

LitIC(s) == <<[op |-> "literal", cs |-> [j \in 1..Len(s) |-> IC({s[j]})]]>>

\* no group has taken part in the match: every span is empty
NoGroups == [n \in 1..2 |-> [open |-> 0, span |-> <<0, 0>>]]

NoMatch == [ok |-> FALSE, start |-> 0, end |-> 0, groups |-> NoGroups]

\* the repeat h after one more pass through its body
OneLess(h) ==
    [h EXCEPT !.lo = IF @ > 0 THEN @ - 1 ELSE 0, !.hi = IF @ > 0 THEN @ - 1 ELSE 0]

\* whether the repeat h allows another pass through its body
MayRepeat(h) == h.unbounded \/ h.hi > 0

IsWordAt(s, i) == i >= 1 /\ i <= Len(s) /\ s[i] \in WordChar

SetMin(S) == CHOOSE x \in S : \A y \in S : x <= y

SetMax(S) == CHOOSE x \in S : \A y \in S : x >= y

\* how many characters of s, from position i on, lie in the class cs
Run(s, i, cs) ==
    LET stops == {j \in i..Len(s) : s[j] \notin cs}
    IN IF stops = {} THEN Len(s) - i + 1 ELSE SetMin(stops) - i

\* a repeat whose body is one character class
IsClassRepeat(h) == Len(h.body) = 1 /\ h.body[1].op = "in"

RECURSIVE MatchHere(_, _, _, _)
RECURSIVE MatchBranch(_, _, _, _, _, _)

\* The first way, in the backtracking matcher's order of preference, in which
\* the nodes k match s from position i on.  A repeat of one character class
\* takes the longest (greedy) or the shortest (lazy) count after which the
\* rest of the pattern matches, which is what backtracking over its counts
\* finds first; any other repeat is unrolled pass by pass.
MatchHere(s, k, i, groups) ==
    IF Len(k) = 0
    THEN [ok |-> TRUE, start |-> 0, end |-> i, groups |-> groups]
    ELSE LET h == Head(k)
             rest == Tail(k)
         IN CASE h.op = "in" ->
                    IF i <= Len(s) /\ s[i] \in h.cs
                    THEN MatchHere(s, rest, i + 1, groups) ELSE NoMatch
              [] h.op = "literal" ->
                    IF /\ i + Len(h.cs) - 1 <= Len(s)
                       /\ \A j \in 1..Len(h.cs) : s[i + j - 1] \in h.cs[j]
                    THEN MatchHere(s, rest, i + Len(h.cs), groups) ELSE NoMatch
              [] h.op = "at_end" ->
                    IF i = Len(s) + 1 \/ (i = Len(s) /\ s[i] = 10)
                    THEN MatchHere(s, rest, i, groups) ELSE NoMatch
              [] h.op = "at_boundary" ->
                    IF IsWordAt(s, i - 1) # IsWordAt(s, i)
                    THEN MatchHere(s, rest, i, groups) ELSE NoMatch
              [] h.op = "open" ->
                    MatchHere(s, rest, i, [groups EXCEPT ![h.n].open = i])
              [] h.op = "close" ->
                    MatchHere(s, rest, i, [groups EXCEPT ![h.n].span = <<groups[h.n].open, i>>])
              [] h.op = "branch" -> MatchBranch(s, h.bs, 1, rest, i, groups)
              [] h.op = "repeat" /\ IsClassRepeat(h) ->
                    LET run == Run(s, i, h.body[1].cs)
                        most == IF h.unbounded \/ run < h.hi THEN run ELSE h.hi
                        counts == {n \in h.lo..most : MatchHere(s, rest, i + n, groups).ok}
                    IN IF counts = {} THEN NoMatch
                       ELSE MatchHere(s, rest,
                                i + (IF h.greedy THEN SetMax(counts) ELSE SetMin(counts)), groups)
              [] h.op = "repeat" /\ ~IsClassRepeat(h) ->
                    IF h.greedy
                    THEN LET more == IF ~MayRepeat(h) THEN NoMatch
                                     ELSE MatchHere(s, h.body \o <<OneLess(h)>> \o rest, i, groups)
                         IN IF more.ok THEN more
                            ELSE IF h.lo > 0 THEN NoMatch ELSE MatchHere(s, rest, i, groups)
                    ELSE LET skip == IF h.lo > 0 THEN NoMatch ELSE MatchHere(s, rest, i, groups)
                         IN IF skip.ok THEN skip
                            ELSE IF ~MayRepeat(h) THEN NoMatch
                            ELSE MatchHere(s, h.body \o <<OneLess(h)>> \o rest, i, groups)

MatchBranch(s, bs, j, rest, i, groups) ==
    IF j > Len(bs) THEN NoMatch
    ELSE LET m == MatchHere(s, bs[j] \o rest, i, groups)
         IN IF m.ok THEN m ELSE MatchBranch(s, bs, j + 1, rest, i, groups)

\* re.search(pattern, s) restricted to matches that start at position i or
\* later: the leftmost start wins
SearchFrom(pattern, s, i) ==
    LET starts == {j \in i..(Len(s) + 1) : MatchHere(s, pattern, j, NoGroups).ok}
    IN IF starts = {} THEN NoMatch
       ELSE [MatchHere(s, pattern, SetMin(starts), NoGroups) EXCEPT !.start = SetMin(starts)]

\* re.search(pattern, s)
Search(pattern, s) == SearchFrom(pattern, s, 1)

\* match.group(n): the text of group n; <<>> stands for None, which a group
\* that took part in no match gives (no group of these patterns matches "")
Group(s, m, n) == SubSeq(s, m.groups[n].span[1], m.groups[n].span[2] - 1)

RECURSIVE FindAllFrom(_, _, _)
\* re.findall(pattern, s) for a pattern with one group: the group-1 texts of
\* the successive non-overlapping matches
FindAllFrom(pattern, s, i) ==
    LET m == SearchFrom(pattern, s, i)
    IN IF ~m.ok THEN <<>>
       ELSE <<Group(s, m, 1)>> \o FindAllFrom(pattern, s, IF m.end > m.start THEN m.end ELSE m.end + 1)

FindAll(pattern, s) == FindAllFrom(pattern, s, 1)

\* agent_executor.py:85  r"(?:in|for|at)\s+([A-Za-z\s]+?)(?:\s*,\s*([A-Z]{2}))?\s*(?:\?|$|today|tomorrow|this|next)"  (IGNORECASE)
CityPattern1 ==
    <<Branch(<<LitIC(<<105,110>>), LitIC(<<102,111,114>>), LitIC(<<97,116>>)>>)>>
    \o <<MaxRepeatFrom(1, <<In(IC(Space))>>)>>
    \o <<GroupOpen(1)>>
    \o <<MinRepeatFrom(1, <<In(IC((65..90 \cup 97..122 \cup Space)))>>)>>
    \o <<GroupClose(1)>>
    \o <<MaxRepeat(0, 1, (<<MaxRepeatFrom(0, <<In(IC(Space))>>)>> \o LitIC(<<44>>) \o <<MaxRepeatFrom(0, <<In(IC(Space))>>)>> \o <<GroupOpen(2)>> \o <<MaxRepeat(2, 2, <<In(IC(65..90))>>)>> \o <<GroupClose(2)>>))>>
    \o <<MaxRepeatFrom(0, <<In(IC(Space))>>)>>
    \o <<Branch(<<LitIC(<<63>>), <<AtEnd>>, LitIC(<<116,111,100,97,121>>), LitIC(<<116,111,109,111,114,114,111,119>>), LitIC(<<116,104,105,115>>), LitIC(<<110,101,120,116>>)>>)>>

\* agent_executor.py:86  r"(?:weather|forecast|temperature|air quality)\s+(?:in|for|at)?\s*([A-Za-z\s]+?)(?:\s*,\s*([A-Z]{2}))?\s*(?:\?|$)"  (IGNORECASE)
CityPattern2 ==
    <<Branch(<<LitIC(<<119,101,97,116,104,101,114>>), LitIC(<<102,111,114,101,99,97,115,116>>), LitIC(<<116,101,109,112,101,114,97,116,117,114,101>>), LitIC(<<97,105,114,32,113,117,97,108,105,116,121>>)>>)>>
    \o <<MaxRepeatFrom(1, <<In(IC(Space))>>)>>
    \o <<MaxRepeat(0, 1, <<Branch(<<LitIC(<<105,110>>), LitIC(<<102,111,114>>), LitIC(<<97,116>>)>>)>>)>>
    \o <<MaxRepeatFrom(0, <<In(IC(Space))>>)>>
    \o <<GroupOpen(1)>>
    \o <<MinRepeatFrom(1, <<In(IC((65..90 \cup 97..122 \cup Space)))>>)>>
    \o <<GroupClose(1)>>
    \o <<MaxRepeat(0, 1, (<<MaxRepeatFrom(0, <<In(IC(Space))>>)>> \o LitIC(<<44>>) \o <<MaxRepeatFrom(0, <<In(IC(Space))>>)>> \o <<GroupOpen(2)>> \o <<MaxRepeat(2, 2, <<In(IC(65..90))>>)>> \o <<GroupClose(2)>>))>>
    \o <<MaxRepeatFrom(0, <<In(IC(Space))>>)>>
    \o <<Branch(<<LitIC(<<63>>), <<AtEnd>>>>)>>

\* agent_executor.py:87  r"([A-Za-z]+(?:\s+[A-Za-z]+)?)\s+weather"  (IGNORECASE)
CityPattern3 ==
    <<GroupOpen(1)>>
    \o <<MaxRepeatFrom(1, <<In(IC((65..90 \cup 97..122)))>>)>>
    \o <<MaxRepeat(0, 1, (<<MaxRepeatFrom(1, <<In(IC(Space))>>)>> \o <<MaxRepeatFrom(1, <<In(IC((65..90 \cup 97..122)))>>)>>))>>
    \o <<GroupClose(1)>>
    \o <<MaxRepeatFrom(1, <<In(IC(Space))>>)>>
    \o LitIC(<<119,101,97,116,104,101,114>>)

\* agent_executor.py:88  r"([A-Za-z]+(?:\s+[A-Za-z]+)?)\s+forecast"  (IGNORECASE)
CityPattern4 ==
    <<GroupOpen(1)>>
    \o <<MaxRepeatFrom(1, <<In(IC((65..90 \cup 97..122)))>>)>>
    \o <<MaxRepeat(0, 1, (<<MaxRepeatFrom(1, <<In(IC(Space))>>)>> \o <<MaxRepeatFrom(1, <<In(IC((65..90 \cup 97..122)))>>)>>))>>
    \o <<GroupClose(1)>>
    \o <<MaxRepeatFrom(1, <<In(IC(Space))>>)>>
    \o LitIC(<<102,111,114,101,99,97,115,116>>)

\* agent_executor.py:107  r"\b([A-Z][a-z]+(?:\s+[A-Z][a-z]+)?)\b"
CapitalizedPattern ==
    <<AtBoundary>>
    \o <<GroupOpen(1)>>
    \o <<In(65..90)>>
    \o <<MaxRepeatFrom(1, <<In(97..122)>>)>>
    \o <<MaxRepeat(0, 1, (<<MaxRepeatFrom(1, <<In(Space)>>)>> \o <<In(65..90)>> \o <<MaxRepeatFrom(1, <<In(97..122)>>)>>))>>
    \o <<GroupClose(1)>>
    \o <<AtBoundary>>

\* agent_executor.py:128  r"compare\s+([A-Za-z\s]+?)\s+(?:and|vs|versus|with)\s+([A-Za-z\s]+)"  (IGNORECASE)
ComparePattern1 ==
    LitIC(<<99,111,109,112,97,114,101>>)
    \o <<MaxRepeatFrom(1, <<In(IC(Space))>>)>>
    \o <<GroupOpen(1)>>
    \o <<MinRepeatFrom(1, <<In(IC((65..90 \cup 97..122 \cup Space)))>>)>>
    \o <<GroupClose(1)>>
    \o <<MaxRepeatFrom(1, <<In(IC(Space))>>)>>
    \o <<Branch(<<LitIC(<<97,110,100>>), LitIC(<<118,115>>), LitIC(<<118,101,114,115,117,115>>), LitIC(<<119,105,116,104>>)>>)>>
    \o <<MaxRepeatFrom(1, <<In(IC(Space))>>)>>
    \o <<GroupOpen(2)>>
    \o <<MaxRepeatFrom(1, <<In(IC((65..90 \cup 97..122 \cup Space)))>>)>>
    \o <<GroupClose(2)>>

\* agent_executor.py:129  r"([A-Za-z\s]+?)\s+(?:vs|versus)\s+([A-Za-z\s]+)"  (IGNORECASE)
ComparePattern2 ==
    <<GroupOpen(1)>>
    \o <<MinRepeatFrom(1, <<In(IC((65..90 \cup 97..122 \cup Space)))>>)>>
    \o <<GroupClose(1)>>
    \o <<MaxRepeatFrom(1, <<In(IC(Space))>>)>>
    \o LitIC(<<118>>)
    \o <<Branch(<<LitIC(<<115>>), LitIC(<<101,114,115,117,115>>)>>)>>
    \o <<MaxRepeatFrom(1, <<In(IC(Space))>>)>>
    \o <<GroupOpen(2)>>
    \o <<MaxRepeatFrom(1, <<In(IC((65..90 \cup 97..122 \cup Space)))>>)>>
    \o <<GroupClose(2)>>

\* agent_executor.py:130  r"weather\s+(?:in\s+)?([A-Za-z\s]+?)\s+(?:and|vs|or)\s+([A-Za-z\s]+)"  (IGNORECASE)
ComparePattern3 ==
    LitIC(<<119,101,97,116,104,101,114>>)
    \o <<MaxRepeatFrom(1, <<In(IC(Space))>>)>>
    \o <<MaxRepeat(0, 1, (LitIC(<<105,110>>) \o <<MaxRepeatFrom(1, <<In(IC(Space))>>)>>))>>
    \o <<GroupOpen(1)>>
    \o <<MinRepeatFrom(1, <<In(IC((65..90 \cup 97..122 \cup Space)))>>)>>
    \o <<GroupClose(1)>>
    \o <<MaxRepeatFrom(1, <<In(IC(Space))>>)>>
    \o <<Branch(<<LitIC(<<97,110,100>>), LitIC(<<118,115>>), LitIC(<<111,114>>)>>)>>
    \o <<MaxRepeatFrom(1, <<In(IC(Space))>>)>>
    \o <<GroupOpen(2)>>
    \o <<MaxRepeatFrom(1, <<In(IC((65..90 \cup 97..122 \cup Space)))>>)>>
    \o <<GroupClose(2)>>

\* agent_executor.py:148  r"(\d+)\s*day"
DaysPattern ==
    <<GroupOpen(1)>>
    \o <<MaxRepeatFrom(1, <<In(Digit)>>)>>
    \o <<GroupClose(1)>>
    \o <<MaxRepeatFrom(0, <<In(Space)>>)>>
    \o Lit(<<100,97,121>>)

\* agent_executor.py:102  weather, forecast, temperature, humidity, wind, rain, snow, sunny, cloudy, air, quality, today, tomorrow, what, how, is, the, in, for, at, get, show, tell, me, current, now, compare, vs, and, between
SkipWords ==
    { <<119,101,97,116,104,101,114>>,
      <<102,111,114,101,99,97,115,116>>,
      <<116,101,109,112,101,114,97,116,117,114,101>>,
      <<104,117,109,105,100,105,116,121>>,
      <<119,105,110,100>>,
      <<114,97,105,110>>,
      <<115,110,111,119>>,
      <<115,117,110,110,121>>,
      <<99,108,111,117,100,121>>,
      <<97,105,114>>,
      <<113,117,97,108,105,116,121>>,
      <<116,111,100,97,121>>,
      <<116,111,109,111,114,114,111,119>>,
      <<119,104,97,116>>,
      <<104,111,119>>,
      <<105,115>>,
      <<116,104,101>>,
      <<105,110>>,
      <<102,111,114>>,
      <<97,116>>,
      <<103,101,116>>,
      <<115,104,111,119>>,
      <<116,101,108,108>>,
      <<109,101>>,
      <<99,117,114,114,101,110,116>>,
      <<110,111,119>>,
      <<99,111,109,112,97,114,101>>,
      <<118,115>>,
      <<97,110,100>>,
      <<98,101,116,119,101,101,110>> }

\* agent_executor.py:144  forecast, next few days, this week, tomorrow
ForecastWords ==
    << <<102,111,114,101,99,97,115,116>>,
      <<110,101,120,116,32,102,101,119,32,100,97,121,115>>,
      <<116,104,105,115,32,119,101,101,107>>,
      <<116,111,109,111,114,114,111,119>> >>

\* agent_executor.py:158  air quality, aqi, pollution, smog
AirQualityWords ==
    << <<97,105,114,32,113,117,97,108,105,116,121>>,
      <<97,113,105>>,
      <<112,111,108,108,117,116,105,111,110>>,
      <<115,109,111,103>> >>

\* agent_executor.py:167  what to wear, should i, recommend, suggestion, umbrella, jacket
RecommendationWords ==
    << <<119,104,97,116,32,116,111,32,119,101,97,114>>,
      <<115,104,111,117,108,100,32,105>>,
      <<114,101,99,111,109,109,101,110,100>>,
      <<115,117,103,103,101,115,116,105,111,110>>,
      <<117,109,98,114,101,108,108,97>>,
      <<106,97,99,107,101,116>> >>

\* agent_executor.py:176  summary, complete, full report, everything, all info
SummaryWords ==
    << <<115,117,109,109,97,114,121>>,
      <<99,111,109,112,108,101,116,101>>,
      <<102,117,108,108,32,114,101,112,111,114,116>>,
      <<101,118,101,114,121,116,104,105,110,103>>,
      <<97,108,108,32,105,110,102,111>> >>

\* agent_executor.py:185  weather, temperature, temp, hot, cold, rain, sunny, cloudy, humid
CurrentWords ==
    << <<119,101,97,116,104,101,114>>,
      <<116,101,109,112,101,114,97,116,117,114,101>>,
      <<116,101,109,112>>,
      <<104,111,116>>,
      <<99,111,108,100>>,
      <<114,97,105,110>>,
      <<115,117,110,110,121>>,
      <<99,108,111,117,100,121>>,
      <<104,117,109,105,100>> >>

\* ------------------------------------------------------------------------
\* agent_executor.py: the city extractor and the intent classifier
\* ------------------------------------------------------------------------

\* a Python value that is None or a str
None == [none |-> TRUE, text |-> <<>>]

Str(s) == [none |-> FALSE, text |-> s]

\* truth value of a value that is None or a str
Truthy(v) == ~v.none /\ Len(v.text) > 0

CityPatterns == <<CityPattern1, CityPattern2, CityPattern3, CityPattern4>>

\* lines 94-98: the city of a match, "City,CC" when group 2 took part
CityOfMatch(query, m) ==
    LET city == Strip(Group(query, m, 1))
        country == Group(query, m, 2)
    IN IF Len(country) > 0 THEN city \o <<44>> \o country ELSE city

RECURSIVE FirstPatternCity(_, _)
\* lines 91-98: the first pattern, from the k-th on, that matches decides
FirstPatternCity(query, k) ==
    IF k > Len(CityPatterns) THEN None
    ELSE LET m == Search(CityPatterns[k], query)
         IN IF m.ok THEN Str(CityOfMatch(query, m)) ELSE FirstPatternCity(query, k + 1)

RECURSIVE FirstNotSkipped(_)
\* lines 108-110
FirstNotSkipped(words) ==
    IF Len(words) = 0 THEN None
    ELSE IF Lower(Head(words)) \notin SkipWords THEN Str(Head(words))
    ELSE FirstNotSkipped(Tail(words))

_extract_city(query) ==
    IF \E k \in 1..Len(CityPatterns) : Search(CityPatterns[k], query).ok
    THEN FirstPatternCity(query, 1)
    ELSE FirstNotSkipped(FindAll(CapitalizedPattern, query))

Intent(skill, city, days, city1, city2, question) ==
    [skill |-> skill, city |-> city, days |-> days,
     city1 |-> city1, city2 |-> city2, question |-> question]

\* a rule that emits nothing
NoIntent == Intent("", <<>>, 0, <<>>, <<>>, <<>>)

ComparePatterns == <<ComparePattern1, ComparePattern2, ComparePattern3>>

RECURSIVE CompareFrom(_, _)
\* lines 133-138
CompareFrom(query, k) ==
    IF k > Len(ComparePatterns) THEN NoIntent
    ELSE LET m == Search(ComparePatterns[k], query)
         IN IF m.ok
            THEN Intent("compare", <<>>, 0, Strip(Group(query, m, 1)), Strip(Group(query, m, 2)), <<>>)
            ELSE CompareFrom(query, k + 1)

CompareRule(query) == CompareFrom(query, 1)

\* a forecast rule whose count of days, when the text gives none, is 7
ForecastRule_seven_days(query, city) ==
    LET query_lower == Strip(Lower(query))
    IN IF AnyIn(ForecastWords, query_lower)
       THEN LET days_match == Search(DaysPattern, query_lower)
                days == IF days_match.ok THEN ToInt(Group(query_lower, days_match, 1)) ELSE 7
            IN IF Truthy(city) THEN Intent("forecast", city.text, days, <<>>, <<>>, <<>>)
               ELSE NoIntent
       ELSE NoIntent

\* lines 144-152; city: the value of _extract_city(query) at line 146
ForecastRule(query, city) ==
    LET query_lower == Strip(Lower(query))
    IN IF AnyIn(ForecastWords, query_lower)
       THEN LET days_match == Search(DaysPattern, query_lower)
                days == IF days_match.ok THEN ToInt(Group(query_lower, days_match, 1)) ELSE 3
            IN IF Truthy(city) THEN Intent("forecast", city.text, days, <<>>, <<>>, <<>>)
               ELSE NoIntent
       ELSE NoIntent

\* lines 158-161, 167-170, 176-179, 185-188: a keyword group and its skill;
\* city: the value of _extract_city(query) at line 159, 168, 177, 186
KeywordRule(words, skill, query, city) ==
    IF AnyIn(words, Strip(Lower(query)))
    THEN IF Truthy(city) THEN Intent(skill, city.text, 0, <<>>, <<>>, <<>>) ELSE NoIntent
    ELSE NoIntent

AirQualityRule(query, city) == KeywordRule(AirQualityWords, "air_quality", query, city)

RecommendationsRule(query, city) == KeywordRule(RecommendationWords, "recommendations", query, city)

SummaryRule(query, city) == KeywordRule(SummaryWords, "summary", query, city)

CurrentRule(query, city) == KeywordRule(CurrentWords, "current", query, city)

\* a bare-city rule without the limit of three words
BareCityRule_any_length(query, city) ==
    IF Truthy(city) THEN Intent("current", city.text, 0, <<>>, <<>>, <<>>) ELSE NoIntent

\* lines 191-193; city: the value of _extract_city(query) at line 191
BareCityRule(query, city) ==
    IF Truthy(city) /\ WordCount(query) <= 3
    THEN Intent("current", city.text, 0, <<>>, <<>>, <<>>) ELSE NoIntent

\* line 198
DefaultRule(query) == Intent("query", <<>>, 0, <<>>, <<>>, query)

\* the first of two rule results that emitted an intent
OrElse(a, b) == IF a.skill # "" THEN a ELSE b

\* the bare-city rule tried before the keyword rules
FirstRule_bare_city_first(query, city) ==
    OrElse(CompareRule(query),
    OrElse(BareCityRule(query, city),
    OrElse(ForecastRule(query, city),
    OrElse(AirQualityRule(query, city),
    OrElse(RecommendationsRule(query, city),
    OrElse(SummaryRule(query, city),
    OrElse(CurrentRule(query, city),
           DefaultRule(query))))))))

\* the compare patterns tried after the keyword rules
FirstRule_compare_last(query, city) ==
    OrElse(ForecastRule(query, city),
    OrElse(AirQualityRule(query, city),
    OrElse(RecommendationsRule(query, city),
    OrElse(SummaryRule(query, city),
    OrElse(CurrentRule(query, city),
    OrElse(CompareRule(query),
    OrElse(BareCityRule(query, city),
           DefaultRule(query))))))))

\* lines 124-198: the rules in the order of the code, the first that returns
\* decides; city is what every call of _extract_city(query) returns
FirstRule(query, city) ==
    OrElse(CompareRule(query),
    OrElse(ForecastRule(query, city),
    OrElse(AirQualityRule(query, city),
    OrElse(RecommendationsRule(query, city),
    OrElse(SummaryRule(query, city),
    OrElse(CurrentRule(query, city),
    OrElse(BareCityRule(query, city),
           DefaultRule(query))))))))

_parse_intent(query) == FirstRule(query, _extract_city(query))

Queries ==
    <<
      <<84,111,107,121,111>>,  \* 1: "Tokyo"
      <<87,101,97,116,104,101,114,32,105,110,32,76,111,110,100,111,110>>,  \* 2: "Weather in London"
      <<67,111,109,112,97,114,101,32,76,111,110,100,111,110,32,97,110,100,32,80,97,114,105,115>>,  \* 3: "Compare London and Paris"
      <<53,32,100,97,121,32,102,111,114,101,99,97,115,116,32,102,111,114,32,80,97,114,105,115>>,  \* 4: "5 day forecast for Paris"
      <<57,32,100,97,121,32,102,111,114,101,99,97,115,116,32,102,111,114,32,80,97,114,105,115>>,  \* 5: "9 day forecast for Paris"
      <<48,32,100,97,121,32,102,111,114,101,99,97,115,116,32,102,111,114,32,79,115,108,111>>,  \* 6: "0 day forecast for Oslo"
      <<102,111,114,101,99,97,115,116,32,102,111,114,32,76,111,110,100,111,110>>,  \* 7: "forecast for London"
      <<97,105,114,32,113,117,97,108,105,116,121,32,105,110,32,68,101,108,104,105>>,  \* 8: "air quality in Delhi"
      <<65,81,73,32,66,101,105,106,105,110,103>>,  \* 9: "AQI Beijing"
      <<119,104,97,116,32,116,111,32,119,101,97,114,32,105,110,32,76,111,110,100,111,110>>,  \* 10: "what to wear in London"
      <<117,109,98,114,101,108,108,97,32,105,110,32,83,101,97,116,116,108,101,32,116,111,100,97,121>>,  \* 11: "umbrella in Seattle today"
      <<119,101,97,116,104,101,114,32,115,117,109,109,97,114,121,32,102,111,114,32,83,121,100,110,101,121>>,  \* 12: "weather summary for Sydney"
      <<84,111,107,121,111,32,118,115,32,80,97,114,105,115,32,119,101,97,116,104,101,114>>,  \* 13: "Tokyo vs Paris weather"
      <<119,101,97,116,104,101,114,32,105,110,32,76,111,110,100,111,110,32,97,110,100,32,80,97,114,105,115>>,  \* 14: "weather in London and Paris"
      <<66,101,114,108,105,110,32,119,101,97,116,104,101,114>>,  \* 15: "Berlin weather"
      <<78,101,119,32,89,111,114,107,32,119,101,97,116,104,101,114>>,  \* 16: "New York weather"
      <<119,101,97,116,104,101,114,32,105,110,32,80,97,114,105,115,44,32,70,82>>,  \* 17: "weather in Paris, FR"
      <<114,97,105,110,32,105,110,32,80,97,114,105,115,44,32,70,82>>,  \* 18: "rain in Paris, FR"
      <<102,111,114,101,99,97,115,116>>,  \* 19: "forecast"
      <<119,105,108,108,32,105,116,32,98,101,32,104,117,109,105,100>>,  \* 20: "will it be humid"
      <<104,101,108,108,111,32,116,104,101,114,101,32,109,121,32,102,114,105,101,110,100>>,  \* 21: "hello there my friend"
      <<112,97,114,105,115>>,  \* 22: "paris"
      <<73,115,32,105,116,32,97,32,103,111,111,100,32,100,97,121,32,102,111,114,32,104,105,107,105,110,103,32,105,110,32,68,101,110,118,101,114,63>>,  \* 23: "Is it a good day for hiking in Denver?"
      <<102,111,114,101,99,97,115,116,32,102,111,114,32,76,111,110,100,111,110,32,97,105,114,32,113,117,97,108,105,116,121>>,  \* 24: "forecast for London air quality"
      <<32,32,32>>,  \* 25: "   "
      <<84,111,107,121,111,32,119,101,97,116,104,101,114>>,  \* 26: "Tokyo weather"
      <<102,117,108,108,32,114,101,112,111,114,116,32,79,115,108,111,32,115,109,111,103>>,  \* 27: "full report Oslo smog"
      <<106,97,99,107,101,116,32,79,115,108,111,32,115,117,109,109,97,114,121>>,  \* 28: "jacket Oslo summary"
      <<49,32,100,97,121,32,102,111,114,101,99,97,115,116,32,102,111,114,32,82,111,109,101>>,  \* 29: "1 day forecast for Rome"
      <<50,32,100,97,121,32,102,111,114,101,99,97,115,116,32,102,111,114,32,78,101,119,32,89,111,114,107>>,  \* 30: "2 day forecast for New York"
      <<51,32,100,97,121,32,102,111,114,101,99,97,115,116,32,102,111,114,32,80,97,114,105,115>>,  \* 31: "3 day forecast for Paris"
      <<52,32,100,97,121,32,102,111,114,101,99,97,115,116,32,102,111,114,32,79,115,108,111>>,  \* 32: "4 day forecast for Oslo"
      <<54,32,100,97,121,32,102,111,114,101,99,97,115,116,32,102,111,114,32,76,105,109,97>>,  \* 33: "6 day forecast for Lima"
      <<55,32,100,97,121,32,102,111,114,101,99,97,115,116,32,102,111,114,32,80,97,114,105,115>>,  \* 34: "7 day forecast for Paris"
      <<56,32,100,97,121,32,102,111,114,101,99,97,115,116,32,102,111,114,32,67,97,105,114,111>>,  \* 35: "8 day forecast for Cairo"
      <<99,97,116,115,32,118,115,32,100,111,103,115>>,  \* 36: "cats vs dogs"
      <<102,111,114,101,99,97,115,116,32,102,111,114,32,80,97,114,105,115,44,32,70,82>>,  \* 37: "forecast for Paris, FR"
      <<116,101,109,112,101,114,97,116,117,114,101,32,97,116,32,82,111,109,101,44,32,73,84>>,  \* 38: "temperature at Rome, IT"
      <<119,101,97,116,104,101,114,32,105,110,32,78,101,119,32,89,111,114,107,44,32,85,83>>,  \* 39: "weather in New York, US"
      <<80,97,114,105,115,32,119,101,97,116,104,101,114>>,  \* 40: "Paris weather"
      <<83,97,110,32,74,111,115,101,32,119,101,97,116,104,101,114>>,  \* 41: "San Jose weather"
      <<68,117,98,108,105,110,32,119,101,97,116,104,101,114>>,  \* 42: "Dublin weather"
      <<49,48,32,100,97,121,32,102,111,114,101,99,97,115,116,32,102,111,114,32,82,111,109,101>>,  \* 43: "10 day forecast for Rome"
      <<50,53,32,100,97,121,32,102,111,114,101,99,97,115,116,32,102,111,114,32,79,115,108,111>>,  \* 44: "25 day forecast for Oslo"
      <<84,111,107,121,111,32,102,111,114,101,99,97,115,116>>  \* 45: "Tokyo forecast"
    >>

\* a text of the table by its number; 0 is the empty string
Chars(t) == IF t = 0 THEN <<>> ELSE Queries[t]

\* _parse_intent of every text of the table, computed once
Parsed == [t \in 1..Len(Queries) |-> _parse_intent(Queries[t])]

\* ------------------------------------------------------------------------
\* weather_agent.py: the skills.  A skill runs until it awaits an outbound
\* call; Resume continues it with the outcome of that call.
\* ------------------------------------------------------------------------

\* Outcomes of a call of the weather capability (WeatherClient._make_request):
\*   "ok"     a response with data ("empty": geocode answering [])
\*   "e404"   a failure whose text, str(e), contains "404", as that of
\*            raise_for_status for HTTP 404 does
\*   "err"    a failure whose text does not contain "404"
\*   "value_error"  WeatherClient raising before any request (no city given)
WeatherOutcomes == {"ok", "e404", "err"}

GeocodeOutcomes == WeatherOutcomes \cup {"empty"}

\* Outcomes of generate_content: an answer, the answer "NONE", the empty
\* answer, or a failure
ModelOutcomes == {"text", "none", "empty", "fail"}

\* the awaited call of each kind
WeatherSteps ==
    {"current.weather", "forecast.forecast", "air.geocode", "air.pollution",
     "rec.weather", "compare.first", "compare.second", "query.weather",
     "summary.weather", "summary.forecast", "summary.geocode", "summary.pollution"}

ModelSteps == {"rec.ai", "query.extract", "query.answer", "summary.ai"}

\* the calls that take the city by name (weather_client.py:95-101, 131-137)
CitySteps ==
    {"current.weather", "forecast.forecast", "rec.weather", "compare.first",
     "compare.second", "query.weather", "summary.weather", "summary.forecast"}

\* a response text: which message it is and what it was formatted from
Msg(tag, city, days, sections) ==
    [tag |-> tag, city |-> city, days |-> days, sections |-> sections]

\* the empty string
EmptyText == Msg("", <<>>, 0, {})

\* truth value of a text
NonEmpty(text) == text.tag # ""

\* "AI analysis unavailable"
AiUnavailable == <<65,73,32,97,110,97,108,121,115,105,115,32,117,110,97,118,97,105,108,97,98,108,101>>

\* the city the language model names when it names one: "Denver"
AiCity == <<68,101,110,118,101,114>>

\* the locals of a skill that is awaiting a call
NoRun ==
    [skill |-> "", step |-> "", city |-> <<>>, city2 |-> <<>>, days |-> 0,
     question |-> 0, sections |-> {}]

Awaiting(run) == [done |-> FALSE, run |-> run, text |-> EmptyText]

Finished(text) == [done |-> TRUE, run |-> NoRun, text |-> text]

\* weather_agent.py:43-52: the string _ai_analyze returns; it never raises
_ai_analyze(outcome) == IF outcome = "fail" THEN "unavailable" ELSE outcome

\* the section an AI answer contributes to a composed text
AiSection(outcome) ==
    CASE _ai_analyze(outcome) = "unavailable" -> {"ai_unavailable"}
      [] _ai_analyze(outcome) = "empty" -> {"ai_empty"}
      [] OTHER -> {"ai_text"}

\* a skill that reports every failure with its generic error text
get_current_weather_generic(run, o) ==
    IF o = "ok" THEN Finished(Msg("current", run.city, 0, {}))
    ELSE Finished(Msg("current.error", run.city, 0, {}))

\* weather_agent.py:68-75
get_current_weather(run, o) ==
    IF o = "ok" THEN Finished(Msg("current", run.city, 0, {}))
    ELSE IF o = "e404" THEN Finished(Msg("current.not_found", run.city, 0, {}))
    ELSE Finished(Msg("current.error", run.city, 0, {}))

\* a forecast of as many days as asked for
Clamp_none(days) == days

\* weather_agent.py:93: min(max(days, 1), 5)
Clamp(days) == IF days < 1 THEN 1 ELSE IF days > 5 THEN 5 ELSE days

\* weather_agent.py:92-100
get_forecast(run, o) ==
    IF o = "ok" THEN Finished(Msg("forecast", run.city, run.days, {}))
    ELSE IF o = "e404" THEN Finished(Msg("forecast.not_found", run.city, 0, {}))
    ELSE Finished(Msg("forecast.error", run.city, 0, {}))

\* weather_agent.py:116-135
get_air_quality(run, o) ==
    CASE run.step = "air.geocode" ->
            IF o = "ok" THEN Awaiting([run EXCEPT !.step = "air.pollution"])
            ELSE IF o = "empty" THEN Finished(Msg("air_quality.not_found", run.city, 0, {}))
            ELSE Finished(Msg("air_quality.error", run.city, 0, {}))
      [] run.step = "air.pollution" ->
            IF o = "ok" THEN Finished(Msg("air_quality", run.city, 0, {}))
            ELSE Finished(Msg("air_quality.error", run.city, 0, {}))

\* weather_agent.py:151-176
get_recommendations(run, o) ==
    CASE run.step = "rec.weather" ->
            IF o = "ok" THEN Awaiting([run EXCEPT !.step = "rec.ai"])
            ELSE Finished(Msg("recommendations.error", run.city, 0, {}))
      [] run.step = "rec.ai" ->
            Finished(Msg("recommendations", run.city, 0, {"current"} \cup AiSection(o)))

\* weather_agent.py:193-236; the second lookup raises at once without a city
compare_weather(run, o) ==
    CASE run.step = "compare.first" ->
            IF o = "ok" /\ Len(run.city2) > 0 THEN Awaiting([run EXCEPT !.step = "compare.second"])
            ELSE Finished(Msg("compare.error", run.city, 0, {}))
      [] run.step = "compare.second" ->
            IF o = "ok" THEN Finished(Msg("compare", run.city, 0, {"city2"}))
            ELSE Finished(Msg("compare.error", run.city, 0, {}))

\* weather_agent.py:252-288
query(run, o) ==
    CASE run.step = "query.extract" ->
            LET city_response == _ai_analyze(o)
                city == CASE city_response = "text" -> AiCity
                          [] city_response = "unavailable" -> AiUnavailable
                          [] OTHER -> <<>>
            IN IF Len(city) > 0
               THEN Awaiting([run EXCEPT !.step = "query.weather", !.city = city])
               ELSE Awaiting([run EXCEPT !.step = "query.answer",
                                         !.sections = {"No specific city mentioned"}])
      [] run.step = "query.weather" ->
            Awaiting([run EXCEPT !.step = "query.answer",
                                 !.sections = IF o = "ok" THEN {"weather_data"}
                                              ELSE {"Weather data unavailable"}])
      [] run.step = "query.answer" ->
            LET response == _ai_analyze(o)
            IN IF response = "empty" THEN Finished(EmptyText)
               ELSE Finished(Msg("answer", run.city, 0, run.sections \cup AiSection(o)))

\* weather_agent.py:304-358
get_weather_summary(run, o) ==
    CASE run.step = "summary.weather" ->
            IF o = "ok" THEN Awaiting([run EXCEPT !.step = "summary.forecast"])
            ELSE Finished(Msg("summary.error", run.city, 0, {}))
      [] run.step = "summary.forecast" ->
            IF o = "ok" THEN Awaiting([run EXCEPT !.step = "summary.geocode"])
            ELSE Finished(Msg("summary.error", run.city, 0, {}))
      [] run.step = "summary.geocode" ->
            IF o = "ok" THEN Awaiting([run EXCEPT !.step = "summary.pollution"])
            ELSE IF o = "empty" THEN Awaiting([run EXCEPT !.step = "summary.ai"])
            ELSE Finished(Msg("summary.error", run.city, 0, {}))
      [] run.step = "summary.pollution" ->
            IF o = "ok"
            THEN Awaiting([run EXCEPT !.step = "summary.ai", !.sections = {"air_quality"}])
            ELSE Finished(Msg("summary.error", run.city, 0, {}))
      [] run.step = "summary.ai" ->
            Finished(Msg("summary", run.city, 3,
                         {"current", "forecast"} \cup run.sections \cup AiSection(o)))

\* the skill of a run continued with the outcome o of the call it awaits
Resume(run, o) ==
    CASE run.skill = "current" -> get_current_weather(run, o)
      [] run.skill = "forecast" -> get_forecast(run, o)
      [] run.skill = "air_quality" -> get_air_quality(run, o)
      [] run.skill = "recommendations" -> get_recommendations(run, o)
      [] run.skill = "compare" -> compare_weather(run, o)
      [] run.skill = "summary" -> get_weather_summary(run, o)
      [] run.skill = "query" -> query(run, o)

\* a dispatcher that answers every intent with the current weather
Route_current_for_all(intent, t) ==
    [NoRun EXCEPT !.skill = "current", !.step = "current.weather",
                  !.city = IF intent.skill = "compare" THEN intent.city1 ELSE intent.city]

\* agent_executor.py:225-261: the skill an intent is routed to, up to its
\* first outbound call (the question of a query intent is the text t)
Route(intent, t) ==
    LET run == [NoRun EXCEPT !.skill = intent.skill, !.city = intent.city]
    IN CASE intent.skill = "current" -> [run EXCEPT !.step = "current.weather"]
         [] intent.skill = "forecast" ->
                [run EXCEPT !.step = "forecast.forecast", !.days = Clamp(intent.days)]
         [] intent.skill = "air_quality" -> [run EXCEPT !.step = "air.geocode"]
         [] intent.skill = "recommendations" -> [run EXCEPT !.step = "rec.weather"]
         [] intent.skill = "compare" ->
                [run EXCEPT !.step = "compare.first", !.city = intent.city1,
                            !.city2 = intent.city2]
         [] intent.skill = "summary" -> [run EXCEPT !.step = "summary.weather"]
         [] OTHER -> [run EXCEPT !.skill = "query", !.step = "query.extract", !.question = t]

\* weather_client.py:95-101: a lookup by city name raises ValueError at once,
\* before any request, when the city is empty; the skill's handler gets it
Enter(run) ==
    IF run.step \in CitySteps /\ Len(run.city) = 0
    THEN Resume(run, "value_error") ELSE Awaiting(run)

\* ------------------------------------------------------------------------
\* servicenow_handler.py: requests, responses and the JSON-RPC bridge
\* ------------------------------------------------------------------------

\* A part of params.message.parts.  dict: a JSON object (part.get works);
\* type, kind: "" when the key is absent, null or ""; has_text: the key is
\* there; text_is_str: its value is a JSON string; text: its number
Part(type, kind, t) ==
    [dict |-> TRUE, type |-> type, kind |-> kind, has_text |-> TRUE, text_is_str |-> TRUE, text |-> t]

NoTextPart(type, kind) == [Part(type, kind, 0) EXCEPT !.has_text = FALSE]

NonStrTextPart(type, kind) == [Part(type, kind, 0) EXCEPT !.text_is_str = FALSE]

NonDictPart == [Part("", "", 0) EXCEPT !.dict = FALSE, !.has_text = FALSE]

\* params.message.  shape: "dict", "absent" (no such key) or "other" (any
\* other JSON value); parts_shape likewise: "list", "absent" or "other"
MessageData(parts) == [shape |-> "dict", parts_shape |-> "list", parts |-> parts]

NoMessage == [MessageData(<<>>) EXCEPT !.shape = "absent"]

NonDictMessage == [MessageData(<<>>) EXCEPT !.shape = "other"]

NoParts == [MessageData(<<>>) EXCEPT !.parts_shape = "absent"]

NonListParts == [MessageData(<<>>) EXCEPT !.parts_shape = "other"]

\* params.  has_id: the key "id" is there; id, sessionId, contextId: 0 for
\* null (or, for the latter two, absent)
Params(has_id, id, sessionId, contextId, message) ==
    [shape |-> "dict", has_id |-> has_id, id |-> id, sessionId |-> sessionId,
     contextId |-> contextId, message |-> message]

NoParams == [Params(FALSE, 0, 0, 0, NoMessage) EXCEPT !.shape = "absent"]

NonDictParams == [Params(FALSE, 0, 0, 0, NoMessage) EXCEPT !.shape = "other"]

\* The body of a request.  shape: "undecodable" (bytes that are not UTF-8),
\* "invalid" (text that is not JSON), "other" (JSON, not an object), "dict";
\* id: 0 when absent or null; method: "" when absent
Body(id, method, params) == [shape |-> "dict", id |-> id, method |-> method, params |-> params]

BadBody(shape) == [Body(0, "", NoParams) EXCEPT !.shape = shape]

\* no request
NoBody == BadBody("none")

\* an exception in flight
Raise(exc) == [raised |-> exc]

IsRaise(v) == "raised" \in DOMAIN v

\* json.loads(body), line 56: bytes are decoded first (UnicodeDecodeError is
\* a ValueError, not a JSONDecodeError), then parsed
json_loads(body) ==
    CASE body.shape = "undecodable" -> Raise("UnicodeDecodeError")
      [] body.shape = "invalid" -> Raise("JSONDecodeError")
      [] OTHER -> body

\* uuid.uuid4 at draw number k of the handling of request r
Uuid(r, k) == 100 * r + k

\* an error response that loses the id of the request
_error_response_null_id(jsonrpc_id, code) ==
    [jsonrpc |-> "2.0", id |-> 0, error |-> [code |-> code]]

\* lines 286-295
_error_response(jsonrpc_id, code) ==
    [jsonrpc |-> "2.0", id |-> jsonrpc_id, error |-> [code |-> code]]

\* lines 110-117: the text of the first part tagged "text"
RECURSIVE TextOfParts(_)
TextOfParts(parts) ==
    IF Len(parts) = 0 THEN [is_str |-> TRUE, text |-> 0]
    ELSE LET part == Head(parts)
         IN IF ~part.dict THEN Raise("AttributeError")
            ELSE LET part_type == IF part.type # "" THEN part.type ELSE part.kind
                 IN IF part_type = "text"
                    THEN IF part.has_text THEN [is_str |-> part.text_is_str, text |-> part.text]
                         ELSE [is_str |-> TRUE, text |-> 0]
                    ELSE TextOfParts(Tail(parts))

\* lines 107-117
TextContent(params) ==
    LET message_data == params.message
    IN CASE message_data.shape = "other" -> Raise("AttributeError")
         [] message_data.shape = "absent" -> [is_str |-> TRUE, text |-> 0]
         [] message_data.parts_shape = "other" -> Raise("TypeError")
         [] message_data.parts_shape = "absent" -> [is_str |-> TRUE, text |-> 0]
         [] OTHER -> TextOfParts(message_data.parts)

\* a2a.types: a Part wraps a TextPart as its root
TextPart(text) == [root |-> [kind |-> "text", text |-> text]]

\* a message object as the executor reads it.  shape: "object", or "none"
\* for None; parts_shape: "list", "none" (None), "other" (a value that is
\* neither, such as a number) or "absent" (no such attribute)
MessageObject(parts) == [shape |-> "object", parts_shape |-> "list", parts |-> parts]

NoneValue == [MessageObject(<<>>) EXCEPT !.shape = "none"]

\* what an extraction step yields: a text of the table (0: nothing), or an
\* exception
Found(text) == [text |-> text]

\* lines 262-284: TextPart validates that the text is a str; the bridge sets
\* _user_text and _message on the context.  The context is a RequestContext
\* made without a request: its message is None, its accessor gives '', and
\* it has no attribute named request
_create_request_context(content, task_id, session_id) ==
    IF ~content.is_str THEN Raise("ValidationError")
    ELSE [task_id |-> task_id, context_id |-> session_id,
          message |-> NoneValue, get_user_input |-> Found(0),
          _user_text |-> content.text,
          _message |-> ("role" :> "user") @@ MessageObject(<<TextPart(content.text)>>)]

\* hasattr(obj, name)
HasAttr(obj, name) == name \in DOMAIN obj

\* agent_executor.py:52-55, 62-64, 73-75: the text of the first part that has
\* a text attribute holding a non-empty text; 0 when there is none
RECURSIVE FirstPartText(_)
FirstPartText(parts) ==
    IF Len(parts) = 0 THEN 0
    ELSE IF HasAttr(Head(parts), "text") /\ Len(Chars(Head(parts).text)) > 0
    THEN Head(parts).text
    ELSE FirstPartText(Tail(parts))

\* a handler that lets the exception through
Try_propagating(v) == v

\* try: ... except Exception: pass
Try(v) == IF IsRaise(v) THEN Found(0) ELSE v

\* the scan of message.parts; absent, none: what reading the parts gives when
\* the message has no such attribute and when it is None
PartsScan(message, absent, none) ==
    CASE message.parts_shape = "absent" -> absent
      [] message.parts_shape = "none" -> none
      [] message.parts_shape = "other" -> Raise("TypeError")
      [] OTHER -> Found(FirstPartText(message.parts))

\* agent_executor.py:39-40: the override text the bridge set
OverrideText(context) ==
    IF HasAttr(context, "_user_text") /\ Len(Chars(context._user_text)) > 0
    THEN Found(context._user_text) ELSE Found(0)

\* servicenow_handler.py:301-308: the patched accessor; the get_user_input
\* of the context is what the accessor of the SDK does for it (a text, or an
\* exception)
get_user_input(context) ==
    IF OverrideText(context).text # 0 THEN OverrideText(context)
    ELSE context.get_user_input

\* agent_executor.py:50-55: context.message
PrimaryMessageText(context) ==
    IF ~HasAttr(context, "message") THEN Raise("AttributeError")
    ELSE IF context.message.shape = "none" THEN Found(0)
    ELSE PartsScan(context.message, Raise("AttributeError"), Found(0))

\* agent_executor.py:60-64: context._message
InternalMessageText(context) ==
    IF ~HasAttr(context, "_message") THEN Found(0)
    ELSE IF context._message.shape = "none" THEN Found(0)
    ELSE PartsScan(context._message, Raise("AttributeError"), Raise("TypeError"))

\* agent_executor.py:70-75: context.request.message
RequestMessageText(context) ==
    IF ~HasAttr(context, "request") THEN Raise("AttributeError")
    ELSE IF context.request.shape = "none" THEN Found(0)
    ELSE IF ~HasAttr(context.request, "message") THEN Raise("AttributeError")
    ELSE IF context.request.message.shape = "none" THEN Found(0)
    ELSE PartsScan(context.request.message, Found(0), Found(0))

\* the result of a step when it returns or raises, else that of the steps
\* after it
OrNext(a, b) == IF IsRaise(a) THEN a ELSE IF a.text # 0 THEN a ELSE b

\* the accessor consulted after the messages
_extract_query_accessor_last(context) ==
    OrNext(OverrideText(context),
    OrNext(Try(PrimaryMessageText(context)),
    OrNext(Try(InternalMessageText(context)),
    OrNext(Try(RequestMessageText(context)),
    OrNext(Try(get_user_input(context)),
           Found(0))))))

\* agent_executor.py:35-79
_extract_query(context) ==
    OrNext(OverrideText(context),
    OrNext(Try(get_user_input(context)),
    OrNext(Try(PrimaryMessageText(context)),
    OrNext(Try(InternalMessageText(context)),
    OrNext(Try(RequestMessageText(context)),
           Found(0))))))

\* the help text (agent_executor.py:279-327)
_get_help_message == Msg("help", <<>>, 0, {})

\* a2a.utils.new_agent_text_message: a Message with one text part; model_dump
\* is what the pydantic method of that name returns.  by (not in the code)
\* records the request whose execution made the event
new_agent_text_message(text, r) ==
    [role |-> "agent", parts |-> <<TextPart(text)>>,
     model_dump |-> [role |-> "agent", parts |-> <<[kind |-> "text", text |-> text]>>],
     by |-> r]

\* an execute that takes only the empty string for an empty query
ExecuteFrom_empty_only(t) ==
    IF t = 0
    THEN [query |-> t, intent |-> NoIntent, res |-> Finished(_get_help_message)]
    ELSE [query |-> t, intent |-> Parsed[t], res |-> Enter(Route(Parsed[t], t))]

\* agent_executor.py:214-261: execute from the query t on, up to its first
\* outbound call: the help text for an empty query, else the intent and the
\* skill it is routed to
ExecuteFrom(t) ==
    IF t = 0 \/ Len(Strip(Chars(t))) = 0
    THEN [query |-> t, intent |-> NoIntent, res |-> Finished(_get_help_message)]
    ELSE [query |-> t, intent |-> Parsed[t], res |-> Enter(Route(Parsed[t], t))]

\* agent_executor.py:208
ExecuteStart(context) == ExecuteFrom(_extract_query(context).text)

\* agent_executor.py:263-267: what execute enqueues when the skill is over
ExecuteEnd(result, r) == new_agent_text_message(result.text, r)

\* lines 141-152: the text the parts of an event give, and whether the scan
\* of the parts ended on a part (break)
RECURSIVE PartsText(_)
PartsText(parts) ==
    IF Len(parts) = 0 THEN [found |-> FALSE, text |-> EmptyText]
    ELSE LET part == Head(parts)
         IN IF HasAttr(part, "text") /\ NonEmpty(part.text)
            THEN [found |-> TRUE, text |-> part.text]
            ELSE IF HasAttr(part, "root") /\ HasAttr(part.root, "text")
            THEN [found |-> TRUE, text |-> part.root.text]
            ELSE PartsText(Tail(parts))

\* lines 165-170: the text of the first dict with a "text" key
RECURSIVE DumpText(_)
DumpText(parts) ==
    IF Len(parts) = 0 THEN EmptyText
    ELSE IF HasAttr(Head(parts), "text") THEN Head(parts).text
    ELSE DumpText(Tail(parts))

\* lines 139-172: the text one event gives
EventText(event) ==
    LET method1 == IF HasAttr(event, "parts") /\ Len(event.parts) > 0
                   THEN PartsText(event.parts).text ELSE EmptyText
        method2 == IF ~NonEmpty(method1) /\ HasAttr(event, "text") /\ NonEmpty(event.text)
                   THEN event.text ELSE method1
    IN IF ~NonEmpty(method2) /\ HasAttr(event, "model_dump")
          /\ HasAttr(event.model_dump, "parts")
       THEN DumpText(event.model_dump.parts) ELSE method2

\* lines 131-175: the text of the first event that gives a non-empty one
RECURSIVE ResponseText(_)
ResponseText(events) ==
    IF Len(events) = 0 THEN EmptyText
    ELSE IF NonEmpty(EventText(Head(events))) THEN EventText(Head(events))
    ELSE ResponseText(Tail(events))

\* the texts with which a skill reports that an outbound call failed
FailureTexts ==
    {"current.error", "current.not_found", "forecast.error", "forecast.not_found",
     "air_quality.error", "air_quality.not_found", "recommendations.error",
     "compare.error", "summary.error"}

\* a handler that turns a failure reported by the skill into a protocol error
TasksSendResponse_propagating(jsonrpc_id, task_id, session_id, response_text) ==
    IF response_text.tag \in FailureTexts
    THEN [jsonrpc |-> "2.0", id |-> jsonrpc_id, error |-> [code |-> -32603]]
    ELSE [jsonrpc |-> "2.0", id |-> jsonrpc_id,
          result |-> [id |-> task_id, sessionId |-> session_id,
                      status |-> [state |-> "completed"],
                      message |-> [role |-> "agent",
                                   parts |-> <<[type |-> "text", text |-> response_text]>>],
                      artifacts |-> <<[parts |-> <<[type |-> "text", text |-> response_text]>>]>>]]

\* lines 182-215
TasksSendResponse(jsonrpc_id, task_id, session_id, response_text) ==
    [jsonrpc |-> "2.0", id |-> jsonrpc_id,
     result |-> [id |-> task_id, sessionId |-> session_id,
                 status |-> [state |-> "completed"],
                 message |-> [role |-> "agent",
                              parts |-> <<[type |-> "text", text |-> response_text]>>],
                 artifacts |-> <<[parts |-> <<[type |-> "text", text |-> response_text]>>]>>]]

\* lines 104-125: the locals of _handle_tasks_send when it calls execute
TasksSendLocals(params, r) ==
    IF params.shape = "other" THEN Raise("AttributeError")
    ELSE LET task_id == IF params.has_id THEN params.id ELSE Uuid(r, 1)
             session_id == IF params.sessionId # 0 THEN params.sessionId ELSE Uuid(r, 2)
             content == TextContent(params)
         IN IF IsRaise(content) THEN content
            ELSE LET context == _create_request_context(content, task_id, session_id)
                 IN IF IsRaise(context) THEN context
                    ELSE [task_id |-> task_id, session_id |-> session_id, context |-> context]

\* what the handler does with a request before any outbound call: it
\* responds, or it has built a context and calls execute
Respond(response) == [kind |-> "respond", response |-> response]

Execute(jsonrpc_id, locals) == [kind |-> "execute", jsonrpc_id |-> jsonrpc_id, locals |-> locals]

\* lines 104, 217-221
_handle_tasks_send(jsonrpc_id, params, r) ==
    LET locals == TasksSendLocals(params, r)
    IN IF IsRaise(locals) THEN Respond(_error_response(jsonrpc_id, -32603))
       ELSE Execute(jsonrpc_id, locals)

\* a conversion that loses the message
ConvertedParams_without_message(params, r) ==
    IF params.shape = "other" THEN Raise("AttributeError")
    ELSE Params(TRUE, Uuid(r, 3), params.contextId, 0, NoMessage)

\* lines 227-231
ConvertedParams(params, r) ==
    IF params.shape = "other" THEN Raise("AttributeError")
    ELSE Params(TRUE, Uuid(r, 3), params.contextId, 0, params.message)

\* a tasks/get that answers with the id of the request, not of the task
_handle_tasks_get_request_id(jsonrpc_id, params) ==
    IF params.shape = "other" THEN Raise("AttributeError")
    ELSE [jsonrpc |-> "2.0", id |-> jsonrpc_id,
          result |-> [id |-> jsonrpc_id, status |-> [state |-> "completed"]]]

\* lines 234-246
_handle_tasks_get(jsonrpc_id, params) ==
    IF params.shape = "other" THEN Raise("AttributeError")
    ELSE [jsonrpc |-> "2.0", id |-> jsonrpc_id,
          result |-> [id |-> params.id, status |-> [state |-> "completed"]]]

\* a tasks/cancel that answers like tasks/get
_handle_tasks_cancel_completed(jsonrpc_id, params) ==
    IF params.shape = "other" THEN Raise("AttributeError")
    ELSE [jsonrpc |-> "2.0", id |-> jsonrpc_id,
          result |-> [id |-> params.id, status |-> [state |-> "completed"]]]

\* lines 248-260
_handle_tasks_cancel(jsonrpc_id, params) ==
    IF params.shape = "other" THEN Raise("AttributeError")
    ELSE [jsonrpc |-> "2.0", id |-> jsonrpc_id,
          result |-> [id |-> params.id, status |-> [state |-> "canceled"]]]

\* except clauses that catch the JSON parse failure only
Except_parse_failure_only(v, id_read, jsonrpc_id) ==
    IF ~IsRaise(v) THEN v
    ELSE IF v.raised = "JSONDecodeError" THEN _error_response(0, -32700)
    ELSE v

\* lines 84-88: the except clauses of handle_request; id_read says whether
\* jsonrpc_id had been assigned when the exception came
Except(v, id_read, jsonrpc_id) ==
    IF ~IsRaise(v) THEN v
    ELSE IF v.raised = "JSONDecodeError" THEN _error_response(0, -32700)
    ELSE _error_response(IF id_read THEN jsonrpc_id ELSE 0, -32603)

\* lines 54-88
handle_request(body, r) ==
    LET data == json_loads(body)
    IN IF IsRaise(data) THEN Respond(Except(data, FALSE, 0))
       ELSE IF data.shape # "dict" THEN Respond(Except(Raise("AttributeError"), FALSE, 0))
       ELSE LET jsonrpc_id == data.id
                method == data.method
                params == data.params
            IN CASE method = "tasks/send" -> _handle_tasks_send(jsonrpc_id, params, r)
                 [] method = "message/send" ->
                        IF IsRaise(ConvertedParams(params, r))
                        THEN Respond(Except(ConvertedParams(params, r), TRUE, jsonrpc_id))
                        ELSE _handle_tasks_send(jsonrpc_id, ConvertedParams(params, r), r)
                 [] method = "tasks/get" ->
                        Respond(Except(_handle_tasks_get(jsonrpc_id, params), TRUE, jsonrpc_id))
                 [] method = "tasks/cancel" ->
                        Respond(Except(_handle_tasks_cancel(jsonrpc_id, params), TRUE, jsonrpc_id))
                 [] OTHER -> Respond(_error_response(jsonrpc_id, -32601))

\* ------------------------------------------------------------------------
\* The server: requests handled concurrently on one event loop
\* ------------------------------------------------------------------------

\* how many requests the server handles
NReq == 2

Reqs == 1..NReq

VARIABLES
    input,      \* input[r]: the body of request r (NoBody: r never arrives)
    pc,         \* pc[r]: "new", "received", "weather" or "model" (awaiting
                \*   that call), "done"
    frame,      \* frame[r]: the locals of r's handler while execute runs
    queues,     \* the SimpleEventQueue objects made so far: their events
    contexts,   \* the RequestContext objects made so far
    response,   \* response[r]: what handle_request returned for r
    busy,       \* the request whose synchronous call occupies the event
                \*   loop's thread; 0 when the loop is free
    calls       \* calls[r]: the outbound calls of r that returned, in order

vars == <<input, pc, frame, queues, contexts, response, busy, calls>>

\* event_queue, context: which object of queues, contexts the local refers
\* to (0: none); query, intent: the locals of execute, what _extract_query
\* and _parse_intent returned to it
NoFrame ==
    [jsonrpc_id |-> 0, task_id |-> 0, session_id |-> 0, event_queue |-> 0,
     context |-> 0, query |-> 0, intent |-> NoIntent, run |-> NoRun]

NoResponse == [jsonrpc |-> ""]

\* one queue shared by every request
NewQueue_shared(qs) == 1

\* line 122: SimpleEventQueue() is a new object
NewQueue(qs) == Len(qs) + 1

\* lines 275-278: RequestContext(...) is a new object
NewContext(cs) == Len(cs) + 1

\* the objects once the one at ref is constructed: a queue has no events
\* (line 26), a context holds what _create_request_context put in it
Constructed(objects, ref, object) ==
    IF ref > Len(objects) THEN Append(objects, object) ELSE [objects EXCEPT ![ref] = object]

\* how a skill goes on when the call it awaits returns with outcome o
Continue(run, o) ==
    LET res == Resume(run, o) IN IF res.done THEN res ELSE Enter(res.run)

\* the state of a request whose skill awaits a call
PcOf(run) == IF run.step \in ModelSteps THEN "model" ELSE "weather"

\* an execute that enqueues its event twice
Complete_twice(r, fr, result, qs) ==
    /\ queues' = [qs EXCEPT ![fr.event_queue] =
                      Append(Append(@, ExecuteEnd(result, r)), ExecuteEnd(result, r))]
    /\ response' = [response EXCEPT ![r] =
           TasksSendResponse(fr.jsonrpc_id, fr.task_id, fr.session_id,
                             ResponseText(queues'[fr.event_queue]))]
    /\ pc' = [pc EXCEPT ![r] = "done"]
    /\ frame' = [frame EXCEPT ![r] = [fr EXCEPT !.run = NoRun]]
    /\ busy' = 0

\* lines 128-215 once the skill is over: execute enqueues its one event in
\* the queue it was given and the handler answers from the events of that
\* queue (qs: the queues before the event)
Complete(r, fr, result, qs) ==
    /\ queues' = [qs EXCEPT ![fr.event_queue] = Append(@, ExecuteEnd(result, r))]
    /\ response' = [response EXCEPT ![r] =
           TasksSendResponse(fr.jsonrpc_id, fr.task_id, fr.session_id,
                             ResponseText(queues'[fr.event_queue]))]
    /\ pc' = [pc EXCEPT ![r] = "done"]
    /\ frame' = [frame EXCEPT ![r] = [fr EXCEPT !.run = NoRun]]
    /\ busy' = 0

\* the skill awaits its next call; a synchronous one keeps the thread
Suspend(r, fr, run) ==
    /\ frame' = [frame EXCEPT ![r] = [fr EXCEPT !.run = run]]
    /\ pc' = [pc EXCEPT ![r] = PcOf(run)]
    /\ busy' = IF PcOf(run) = "model" THEN r ELSE 0
    /\ UNCHANGED response

Proceed(r, fr, res, qs) ==
    IF res.done THEN Complete(r, fr, res, qs)
    ELSE Suspend(r, fr, res.run) /\ queues' = qs

\* line 55: the body of the request has arrived
Receive(r) ==
    /\ pc[r] = "new" /\ input[r].shape # "none" /\ busy = 0
    /\ pc' = [pc EXCEPT ![r] = "received"]
    /\ UNCHANGED <<input, frame, queues, contexts, response, busy, calls>>

\* lines 122-128: the handler whose locals are fr has constructed its queue
\* and its context, and execute has run up to its first outbound call (ex)
Executed(r, fr, context, ex) ==
    /\ contexts' = Constructed(contexts, fr.context, context)
    /\ Proceed(r, [fr EXCEPT !.query = ex.query, !.intent = ex.intent], ex.res,
               Constructed(queues, fr.event_queue, <<>>))

\* what handle_request did with the body (h)
Handled(r, h) ==
    IF h.kind = "respond"
    THEN /\ response' = [response EXCEPT ![r] = h.response]
         /\ pc' = [pc EXCEPT ![r] = "done"]
         /\ UNCHANGED <<frame, queues, contexts, busy>>
    ELSE Executed(r, [jsonrpc_id |-> h.jsonrpc_id, task_id |-> h.locals.task_id,
                      session_id |-> h.locals.session_id,
                      event_queue |-> NewQueue(queues),
                      context |-> NewContext(contexts),
                      query |-> 0, intent |-> NoIntent, run |-> NoRun],
                  h.locals.context, ExecuteStart(h.locals.context))

\* lines 56-128: handle_request up to its response or to the first outbound
\* call of the skill
Handle(r) ==
    /\ pc[r] = "received" /\ busy = 0
    /\ Handled(r, handle_request(input[r], r))
    /\ UNCHANGED <<input, calls>>

\* the city a call was made for
CallCity(run) == IF run.step = "compare.second" THEN run.city2 ELSE run.city

Returned(r, o) ==
    calls' = [calls EXCEPT ![r] =
                 Append(@, [step |-> frame[r].run.step, city |-> CallCity(frame[r].run),
                            outcome |-> o])]

\* weather_client.py:39-42: the awaited HTTP call of r returns or raises
WeatherReturns(r, o) ==
    /\ pc[r] = "weather" /\ busy = 0
    /\ o \in IF frame[r].run.step \in {"air.geocode", "summary.geocode"}
             THEN GeocodeOutcomes ELSE WeatherOutcomes
    /\ Proceed(r, frame[r], Continue(frame[r].run, o), queues)
    /\ Returned(r, o)
    /\ UNCHANGED <<input, contexts>>

\* weather_agent.py:46-52: generate_content, called without await, returns
\* or raises
ModelReturns(r, o) ==
    /\ pc[r] = "model" /\ busy = r
    /\ o \in IF frame[r].run.step = "query.extract"
             THEN ModelOutcomes ELSE ModelOutcomes \ {"none"}
    /\ Proceed(r, frame[r], Continue(frame[r].run, o), queues)
    /\ Returned(r, o)
    /\ UNCHANGED <<input, contexts>>

Next ==
    \E r \in Reqs :
        \/ Receive(r)
        \/ Handle(r)
        \/ \E o \in GeocodeOutcomes : WeatherReturns(r, o)
        \/ \E o \in ModelOutcomes : ModelReturns(r, o)

\* ------------------------------------------------------------------------
\* The requests the server is given
\* ------------------------------------------------------------------------

\* how many different values a client uses for each identifier
MaxId == 1

\* the values of params.id, params.sessionId, params.contextId and of the
\* JSON-RPC id (0: null or absent); none is a value uuid4 draws
TaskIds == {0} \cup 1..MaxId

SessionIds == {0} \cup {10 + i : i \in 1..MaxId}

ContextIds == {0} \cup {20 + i : i \in 1..MaxId}

JsonRpcIds == {0} \cup {30 + i : i \in 1..MaxId}

\* the parts lists of the messages: "type" and "kind" tags, untagged parts,
\* parts without text, parts that are not objects, texts that are not strings
PartsLists ==
    { <<>>,
      <<Part("text", "", 2)>>,
      <<Part("", "text", 2)>>,
      <<Part("file", "text", 2)>>,
      <<Part("text", "file", 2)>>,
      <<Part("", "", 2), Part("text", "", 1)>>,
      <<Part("text", "", 0)>>,
      <<Part("text", "", 25)>>,
      <<NoTextPart("text", "")>>,
      <<NonStrTextPart("text", "")>>,
      <<NonStrTextPart("file", "")>>,
      <<NonDictPart>> }

Messages ==
    {NoMessage, NonDictMessage, NoParts, NonListParts} \cup {MessageData(ps) : ps \in PartsLists}

ParamsValues ==
    {NoParams, NonDictParams}
    \cup {Params(h, IF h THEN i ELSE 0, s, c, msg) :
            h \in BOOLEAN, i \in TaskIds, s \in SessionIds, c \in ContextIds, msg \in Messages}

Methods == {"tasks/send", "message/send", "tasks/get", "tasks/cancel", "", "tasks/sendSubscribe"}

\* every shape of body, method, id and params
ProtocolBodies ==
    {BadBody("undecodable"), BadBody("invalid"), BadBody("other")}
    \cup {Body(j, meth, ps) : j \in JsonRpcIds, meth \in Methods, ps \in ParamsValues}

\* a well-formed send of text t
SendBody(method, j, i, t) ==
    Body(j, method, Params(i # 0, i, 0, 0, MessageData(<<Part("text", "", t)>>)))

\* every text of the table sent by either method
QueryBodies ==
    {SendBody(meth, 31, 1, t) : meth \in {"tasks/send", "message/send"}, t \in 1..Len(Queries)}

TurnBodies == ProtocolBodies \cup QueryBodies

\* the requests that meet each other on the event loop: sends, by either
\* method, of a text that takes a weather call and then a language-model
\* call ("what to wear in London") and of one that takes a weather call
\* only ("Tokyo"), the task operations on the task id of the sends, and
\* tasks/get for a task id that no request sends
ConcurrentBodies ==
    { SendBody("tasks/send", 31, 1, 10),
      SendBody("message/send", 31, 0, 10),
      SendBody("tasks/send", 31, 1, 1),
      SendBody("message/send", 31, 0, 1),
      Body(31, "tasks/cancel", Params(TRUE, 1, 0, 0, NoMessage)),
      Body(31, "tasks/get", Params(TRUE, 1, 0, 0, NoMessage)),
      Body(31, "tasks/get", Params(TRUE, 2, 0, 0, NoMessage)) }

InitRest ==
    /\ pc = [r \in Reqs |-> "new"]
    /\ frame = [r \in Reqs |-> NoFrame]
    /\ queues = <<>>
    /\ contexts = <<>>
    /\ response = [r \in Reqs |-> NoResponse]
    /\ busy = 0
    /\ calls = [r \in Reqs |-> <<>>]

\* requests arriving together
Init ==
    /\ \E bodies \in [Reqs -> ConcurrentBodies] : input = bodies
    /\ InitRest

\* one request alone
InitTurn ==
    /\ \E body \in TurnBodies : input = [r \in Reqs |-> IF r = 1 THEN body ELSE NoBody]
    /\ InitRest

Spec == Init /\ [][Next]_vars

SpecTurn == InitTurn /\ [][Next]_vars

\* ------------------------------------------------------------------------
\* The executor and the bridge on contexts and sinks of every shape
\* ------------------------------------------------------------------------

\* obj with the attribute name set to v, when it is present
WithAttr(obj, name, present, v) == IF present THEN (name :> v) @@ obj ELSE obj

\* the messages a context may hold, t the text they carry: None, no parts,
\* a part with the text, a wrapped part (no text attribute), an empty text
\* before the text, and parts that are absent, None or not a list
MessageShapes(t) ==
    { NoneValue,
      MessageObject(<<>>),
      MessageObject(<<[text |-> t]>>),
      MessageObject(<<TextPart(t)>>),
      MessageObject(<<[text |-> 0], [text |-> t]>>),
      [MessageObject(<<>>) EXCEPT !.parts_shape = "absent"],
      [MessageObject(<<>>) EXCEPT !.parts_shape = "none"],
      [MessageObject(<<>>) EXCEPT !.parts_shape = "other"] }

\* an attribute that is absent, or present with one of the values
Optional(values) == {<<FALSE, NoneValue>>} \cup {<<TRUE, v>> : v \in values}

\* context.request: None, an object without message, an object with one
RequestShapes(t) ==
    {[shape |-> "none"], [shape |-> "object"]}
    \cup {[shape |-> "object", message |-> m] : m \in MessageShapes(t)}

\* the contexts execute may be given: each of the five places the text may
\* be in is absent, empty, of the wrong shape, or holds a text of its own
\* (texts 1 to 5 of the table, by place); the accessor gives a text or raises
ContextShapes ==
    { WithAttr(WithAttr(WithAttr(WithAttr(
          [task_id |-> 0, context_id |-> 0, get_user_input |-> g],
          "_user_text", u[1], u[2]), "message", m[1], m[2]),
          "_message", im[1], im[2]), "request", rq[1], rq[2]) :
        u \in {<<FALSE, 0>>, <<TRUE, 0>>, <<TRUE, 1>>},
        g \in {Found(0), Found(2), Raise("RuntimeError")},
        m \in Optional(MessageShapes(3)),
        im \in Optional(MessageShapes(4)),
        rq \in Optional(RequestShapes(5)) }

\* a response text that is not empty
Text(tag) == Msg(tag, <<>>, 0, {})

\* what model_dump gives for a part: a dict with the text of a text part
DumpOfPart(part) ==
    IF HasAttr(part, "root") /\ HasAttr(part.root, "text")
    THEN [kind |-> "text", text |-> part.root.text]
    ELSE IF HasAttr(part, "text") THEN [text |-> part.text]
    ELSE [kind |-> "file"]

\* an event with parts, as a Message of the SDK is
MessageEvent(parts) ==
    [parts |-> parts, model_dump |-> [parts |-> [i \in 1..Len(parts) |-> DumpOfPart(parts[i])]]]

\* a wrapped part that is not a text part
FilePart == [root |-> [kind |-> "file"]]

\* the events a sink may hold: messages of wrapped text parts (one, two, an
\* empty text first, a file first), messages whose parts expose their text,
\* events with a text of their own, with and without parts, events whose
\* text only their dump shows, and events without any text
EventShapes ==
    { MessageEvent(<<TextPart(Text("b"))>>),
      MessageEvent(<<TextPart(EmptyText)>>),
      MessageEvent(<<TextPart(EmptyText), TextPart(Text("b"))>>),
      MessageEvent(<<FilePart, TextPart(Text("b"))>>),
      MessageEvent(<<[text |-> Text("a")]>>),
      MessageEvent(<<[text |-> EmptyText], [text |-> Text("a")]>>),
      MessageEvent(<<>>),
      [text |-> Text("c")],
      [text |-> EmptyText],
      [text |-> Text("c"), parts |-> <<TextPart(Text("b"))>>],
      [text |-> Text("c"), parts |-> <<[kind |-> "dict"]>>,
       model_dump |-> [parts |-> <<[text |-> Text("d")]>>]],
      [parts |-> <<[kind |-> "dict"]>>, model_dump |-> [parts |-> <<[text |-> Text("d")]>>]],
      [model_dump |-> [status |-> "working"]] }

\* the sinks: up to two events
EventQueues ==
    {<<>>} \cup {<<e>> : e \in EventShapes} \cup {<<e, f>> : e \in EventShapes, f \in EventShapes}

\* weather_client.py:25: BASE_URL
BASE_URL == <<104,116,116,112,115,58,47,47,97,112,105,46,111,112,101,110,119,101,97,116,104,101,114,109,97,112,46,111,114,103,47,100,97,116,97,47,50,46,53>>

\* weather_client.py:29: the values of self.api_key, OPENWEATHER_API_KEY
ApiKeys == {<<53,100,49,101,48,99,51,98>>, <<55,97,52,48,52,102,50,49>>}

\* the decimal digits of a status code
Digits(status) ==
    <<48 + (status \div 100), 48 + ((status \div 10) % 10), 48 + (status % 10)>>

\* weather_client.py:95-101, 131-137 and 37-40: the URL of a lookup by city
\* name, its parameters in the order they were set: units, q, appid
RequestUrl(step, city, api_key) ==
    BASE_URL
    \o (IF step = "forecast.forecast" THEN <<47,102,111,114,101,99,97,115,116>> ELSE <<47,119,101,97,116,104,101,114>>)
    \o <<63,117,110,105,116,115,61,109,101,116,114,105,99,38,113,61>> \o city \o <<38,97,112,112,105,100,61>> \o api_key

\* the responses of the capability that are failures: an HTTP status of
\* 400 or more, or no response at all (0: a timeout)
FailureStatuses == {0, 401, 404, 500}

\* weather_client.py:41: str(e) of the exception raise_for_status raises for
\* the status, which names the status and the URL of the request; that of a
\* timeout is empty
ErrorMessage(status, url) ==
    IF status = 0 THEN <<>>
    ELSE (IF status >= 500 THEN <<83,101,114,118,101,114,32,101,114,114,111,114,32,39>> ELSE <<67,108,105,101,110,116,32,101,114,114,111,114,32,39>>)
         \o Digits(status) \o <<32>>
         \o (CASE status = 401 -> <<85,110,97,117,116,104,111,114,105,122,101,100>>
               [] status = 404 -> <<78,111,116,32,70,111,117,110,100>>
               [] OTHER -> <<73,110,116,101,114,110,97,108,32,83,101,114,118,101,114,32,69,114,114,111,114>>)
         \o <<39,32,102,111,114,32,117,114,108,32,39>> \o url
         \o <<39,10,70,111,114,32,109,111,114,101,32,105,110,102,111,114,109,97,116,105,111,110,32,99,104,101,99,107,58,32,104,116,116,112,115,58,47,47,100,101,118,101,108,111,112,101,114,46,109,111,122,105,108,108,97,46,111,114,103,47,101,110,45,85,83,47,100,111,99,115,47,87,101,98,47,72,84,84,80,47,83,116,97,116,117,115,47>>
         \o Digits(status)

\* weather_agent.py:72-73, 97-98: "404" in error_msg
FailureOutcome(status, error_msg) ==
    IF Contains(error_msg, <<52,48,52>>) THEN "e404" ELSE "err"

\* the cities the two lookups are made for
LookupCities == {<<80,97,114,105,115>>, <<65,114,101,97,52,48,52>>}

\* get_current_weather and get_forecast awaiting their lookup
LookupRuns ==
    {Route(Intent(skill, city, 3, <<>>, <<>>, <<>>), 0) :
         skill \in {"current", "forecast"}, city \in LookupCities}

\* weather_agent.py:71-75, 96-100: the lookup that request r awaits fails
\* with the status, the client holding the key, and the skill returns its text
LookupFails(r, status, api_key) ==
    /\ pc[r] = "weather" /\ frame[r].context = 0 /\ frame[r].event_queue = 0
    /\ LET run == frame[r].run
           error_msg == ErrorMessage(status, RequestUrl(run.step, run.city, api_key))
       IN /\ response' = [response EXCEPT ![r] =
                 [text |-> Resume(run, FailureOutcome(status, error_msg)).text]]
          /\ calls' = [calls EXCEPT ![r] =
                 Append(@, [step |-> run.step, city |-> run.city, status |-> status,
                            api_key |-> api_key,
                            outcome |-> FailureOutcome(status, error_msg)])]
    /\ pc' = [pc EXCEPT ![r] = "done"]
    /\ UNCHANGED <<input, frame, queues, contexts, busy>>

\* main.py:34: API_KEY, the value of A2A_API_KEY when it is configured
API_KEY == <<115,51,99,114,101,116>>

\* a key that is not the configured one
OtherKey == <<103,117,101,115,115>>

\* s.replace(old, ""): s without the occurrences of old
RECURSIVE Without(_, _)
Without(s, old) ==
    IF Len(s) < Len(old) THEN s
    ELSE IF SubSeq(s, 1, Len(old)) = old THEN Without(SubSeq(s, Len(old) + 1, Len(s)), old)
    ELSE <<Head(s)>> \o Without(Tail(s), old)

\* main.py:169-181: verify_api_key; a header that is absent is the empty
\* string here
verify_api_key(headers) ==
    IF Len(API_KEY) = 0 THEN TRUE
    ELSE LET api_key ==
                 IF Len(headers.x_sn_apikey) > 0 THEN headers.x_sn_apikey
                 ELSE IF Len(headers.x_api_key) > 0 THEN headers.x_api_key
                 ELSE Without(Without(headers.authorization, <<66,101,97,114,101,114,32>>), <<65,112,105,75,101,121,32>>)
         IN api_key = API_KEY

\* the values a client gives a header: none, the configured key, another
\* key, and the configured key after a scheme
HeaderValues ==
    {<<>>, API_KEY, OtherKey, <<66,101,97,114,101,114,32>> \o API_KEY, <<65,112,105,75,101,121,32>> \o API_KEY}

\* the HTTP requests: a JSON-RPC message/send under every choice of headers
HttpRequests ==
    {[shape |-> "http",
      headers |-> [x_sn_apikey |-> a, x_api_key |-> b, authorization |-> c],
      data |-> SendBody("message/send", 31, 1, 2)] :
        a \in HeaderValues \ {<<66,101,97,114,101,114,32>> \o API_KEY, <<65,112,105,75,101,121,32>> \o API_KEY},
        b \in HeaderValues \ {<<66,101,97,114,101,114,32>> \o API_KEY, <<65,112,105,75,101,121,32>> \o API_KEY},
        c \in HeaderValues}

\* main.py:193-250: the application create_app builds handles request r.  Its
\* routes are those of the SDK application and the two health routes, its
\* only middleware is CORS, and no route calls verify_api_key: the JSON-RPC
\* route hands the message to the request handler, which gives the executor
\* a context holding it
Dispatch(r) ==
    /\ pc[r] = "new" /\ input[r].shape = "http" /\ Len(contexts) < r
    /\ LET text == input[r].data.params.message.parts[1].text
       IN contexts' = Append(contexts,
              [task_id |-> input[r].data.params.id, context_id |-> 0,
               get_user_input |-> Found(text),
               message |-> MessageObject(<<TextPart(text)>>)])
    /\ UNCHANGED <<input, pc, frame, queues, response, busy, calls>>

\* _extract_query returned, or raised, for the context of request r
Extracted(r, res) ==
    /\ pc' = [pc EXCEPT ![r] = IF IsRaise(res) THEN "raised" ELSE "done"]
    /\ frame' = [frame EXCEPT ![r] =
           [NoFrame EXCEPT !.context = r, !.query = IF IsRaise(res) THEN 0 ELSE res.text]]
    /\ UNCHANGED <<input, queues, contexts, response, busy, calls>>

\* agent_executor.py:208: execute extracts the query from its context
ExtractQuery(r) ==
    /\ pc[r] = "new" /\ r \in 1..Len(contexts)
    /\ Extracted(r, _extract_query(contexts[r]))

\* servicenow_handler.py:130-215: the handler answers from the events of its
\* sink
CollectResponse(r) ==
    /\ pc[r] = "new" /\ r \in 1..Len(queues)
    /\ response' = [response EXCEPT ![r] =
           TasksSendResponse(frame[r].jsonrpc_id, frame[r].task_id, frame[r].session_id,
                             ResponseText(queues[r]))]
    /\ frame' = [frame EXCEPT ![r] = [NoFrame EXCEPT !.event_queue = r]]
    /\ pc' = [pc EXCEPT ![r] = "done"]
    /\ UNCHANGED <<input, queues, contexts, busy, calls>>

NextUnit ==
    \E r \in Reqs :
        \/ Dispatch(r)
        \/ ExtractQuery(r)
        \/ CollectResponse(r)
        \/ \E status \in FailureStatuses, api_key \in ApiKeys : LookupFails(r, status, api_key)

\* one context given to execute, or one sink read by the handler, or one
\* skill awaiting its lookup, or one HTTP request sent to the application
InitUnit ==
    /\ \/ /\ queues = <<>> /\ \E context \in ContextShapes : contexts = <<context>>
          /\ input = [r \in Reqs |-> NoBody]
          /\ pc = [r \in Reqs |-> "new"]
          /\ frame = [r \in Reqs |-> NoFrame]
       \/ /\ contexts = <<>> /\ \E events \in EventQueues : queues = <<events>>
          /\ input = [r \in Reqs |-> NoBody]
          /\ pc = [r \in Reqs |-> "new"]
          /\ frame = [r \in Reqs |-> NoFrame]
       \/ /\ contexts = <<>> /\ queues = <<>>
          /\ input = [r \in Reqs |-> NoBody]
          /\ pc = [r \in Reqs |-> IF r = 1 THEN "weather" ELSE "new"]
          /\ \E run \in LookupRuns :
                 frame = [r \in Reqs |-> IF r = 1 THEN [NoFrame EXCEPT !.run = run] ELSE NoFrame]
       \/ /\ contexts = <<>> /\ queues = <<>>
          /\ \E request \in HttpRequests :
                 input = [r \in Reqs |-> IF r = 1 THEN request ELSE NoBody]
          /\ pc = [r \in Reqs |-> "new"]
          /\ frame = [r \in Reqs |-> NoFrame]
    /\ response = [r \in Reqs |-> NoResponse]
    /\ busy = 0
    /\ calls = [r \in Reqs |-> <<>>]

SpecUnit == InitUnit /\ [][NextUnit]_vars

\* ------------------------------------------------------------------------
\* Properties
\* ------------------------------------------------------------------------

\* handle_request has returned for request r
Answered(r) == pc[r] = "done"

SendMethods == {"tasks/send", "message/send"}

KnownMethods == SendMethods \cup {"tasks/get", "tasks/cancel"}

IsSend(body) == body.shape = "dict" /\ body.method \in SendMethods

IsResult(resp) == "result" \in DOMAIN resp

IsError(resp) == "error" \in DOMAIN resp

\* the JSON-RPC error object with this code and id, and nothing else
ErrorWith(resp, code, id) ==
    /\ IsError(resp) /\ ~IsResult(resp)
    /\ resp.error.code = code /\ resp.id = id

ResultText(resp) == resp.result.message.parts[1].text

\* params is an object whose message is an object whose parts are a list of
\* objects whose texts are strings
WellFormedParams(params) ==
    /\ params.shape = "dict"
    /\ params.message.shape = "dict"
    /\ params.message.parts_shape = "list"
    /\ \A i \in 1..Len(params.message.parts) :
           params.message.parts[i].dict /\ params.message.parts[i].text_is_str

\* the executor was invoked for no request
NoExecutorRun ==
    /\ queues = <<>> /\ contexts = <<>>
    /\ \A r \in Reqs : frame[r] = NoFrame /\ calls[r] = <<>>

FailureOutcomes == {"e404", "err", "fail"}

\* the language model returned the empty string as its final answer
EmptyAnswer(r) ==
    /\ Len(calls[r]) > 0
    /\ calls[r][Len(calls[r])].step = "query.answer"
    /\ calls[r][Len(calls[r])].outcome = "empty"

C2_MalformedJsonIsParseError ==
    \A r \in Reqs :
        Answered(r) /\ input[r].shape \in {"undecodable", "invalid"}
        => ErrorWith(response[r], -32700, 0) /\ NoExecutorRun

\* C3: a JSON body whose method is none of the four known ones, a missing
\* method included, is answered with the error -32601 carrying the request's
\* id, and the executor is not invoked
C3_UnknownMethodNotFound ==
    \A r \in Reqs :
        Answered(r) /\ input[r].shape = "dict" /\ input[r].method \notin KnownMethods
        => ErrorWith(response[r], -32601, input[r].id) /\ NoExecutorRun

\* a request with an id and no method has been answered
C3_Witness ==
    \E r \in Reqs :
        /\ Answered(r) /\ input[r].shape = "dict"
        /\ input[r].method = "" /\ input[r].id = 31
        /\ ErrorWith(response[r], -32601, 31)

\* the tag of a part: its "type", else its "kind"
PartTag(part) == IF part.type # "" THEN part.type ELSE part.kind

\* the part the scan of lines 112-117 stops at: the first part that is not an
\* object or is tagged "text"; 0 when there is none
StopPart(parts) ==
    LET stops == {i \in 1..Len(parts) : ~parts[i].dict \/ PartTag(parts[i]) = "text"}
    IN IF stops = {} THEN 0 ELSE SetMin(stops)

\* the message of a send makes the handler raise: it is not an object, its
\* parts are not a list, the scan stops at a part that is not an object, or
\* the text it stops at is not a string
BadMessage(message) ==
    \/ message.shape = "other"
    \/ /\ message.shape = "dict"
       /\ \/ message.parts_shape = "other"
          \/ /\ message.parts_shape = "list"
             /\ StopPart(message.parts) # 0
             /\ LET part == message.parts[StopPart(message.parts)]
                IN ~part.dict \/ (part.has_text /\ ~part.text_is_str)

\* an exception is raised before the id of the request is read
RaisesBeforeId(body) == body.shape = "other"

\* an exception is raised after the id of the request was read
RaisesAfterId(body) ==
    /\ body.shape = "dict" /\ body.method \in KnownMethods
    /\ \/ body.params.shape = "other"
       \/ body.method \in SendMethods /\ BadMessage(body.params.message)

\* C4: a request during whose handling an exception other than a JSON parse
\* failure is raised is answered with the error -32603, with the request's
\* id when the id had been read and null otherwise; no other request is
\* answered with -32603, and handle_request returns a response for every
\* request rather than raising
C4_InternalErrorEchoesId ==
    \A r \in Reqs :
        Answered(r)
        => /\ ~IsRaise(response[r])
           /\ IsResult(response[r]) \/ IsError(response[r])
           /\ RaisesBeforeId(input[r]) => ErrorWith(response[r], -32603, 0)
           /\ RaisesAfterId(input[r]) => ErrorWith(response[r], -32603, input[r].id)
           /\ IsError(response[r]) /\ response[r].error.code = -32603
              => \/ RaisesBeforeId(input[r]) \/ RaisesAfterId(input[r])
                 \/ input[r].shape = "undecodable"

\* a send with an id whose first part is not an object has been answered
C4_Witness ==
    \E r \in Reqs :
        /\ Answered(r) /\ IsSend(input[r]) /\ input[r].id = 31
        /\ input[r].params.shape = "dict"
        /\ input[r].params.message.shape = "dict"
        /\ input[r].params.message.parts_shape = "list"
        /\ Len(input[r].params.message.parts) > 0
        /\ ~input[r].params.message.parts[1].dict
        /\ ErrorWith(response[r], -32603, 31)

\* the text a well-formed send carries: that of its first part tagged "text"
SentText(body) == body.params.message.parts[StopPart(body.params.message.parts)].text

\* the outbound capabilities behaved alike for r1 and r2: wherever both made
\* the same call at the same point of their turn, it had the same outcome
SameBehaviour(r1, r2) ==
    \A i \in 1..Len(calls[r1]) :
        /\ i <= Len(calls[r2])
        /\ calls[r1][i].step = calls[r2][i].step
        /\ calls[r1][i].city = calls[r2][i].city
        => calls[r1][i].outcome = calls[r2][i].outcome

\* C5: a tasks/send and a message/send that carry the same text, handled
\* against capabilities that behave alike, are answered with results whose
\* message fields (role, parts, text) are equal
C5_SendVariantsAgree ==
    \A r1, r2 \in Reqs :
        /\ Answered(r1) /\ input[r1].method = "tasks/send"
        /\ Answered(r2) /\ input[r2].method = "message/send"
        /\ SentText(input[r1]) = SentText(input[r2])
        /\ SameBehaviour(r1, r2)
        => /\ IsResult(response[r1]) /\ IsResult(response[r2])
           /\ response[r1].result.message = response[r2].result.message
           /\ calls[r1] = calls[r2]

\* both variants of a send of the same text have been answered after the
\* same outcomes, a failure among them
C5_Witness ==
    \E r1, r2 \in Reqs :
        /\ Answered(r1) /\ input[r1].method = "tasks/send"
        /\ Answered(r2) /\ input[r2].method = "message/send"
        /\ SentText(input[r1]) = SentText(input[r2])
        /\ calls[r1] = calls[r2] /\ Len(calls[r1]) = 2
        /\ calls[r1][2].outcome = "fail"
        /\ response[r1].result.id # response[r2].result.id

\* execute has been called for request r
Executing(r) == frame[r].event_queue # 0

\* the texts of the events that request r enqueued in queue q
OwnTexts(r, q) ==
    {queues[q][i].parts[1].root.text : i \in {j \in 1..Len(queues[q]) : queues[q][j].by = r}}

\* C6: every request for which execute is called has a queue and a context
\* that no other request has; its queue holds events of its own execution
\* only, its context holds its own text and identifiers, and the text of its
\* response is the text of an event it enqueued itself
C6_RequestsShareNothing ==
    \A r \in Reqs :
        Executing(r)
        => /\ \A p \in Reqs \ {r} :
                  Executing(p) => /\ frame[p].event_queue # frame[r].event_queue
                                  /\ frame[p].context # frame[r].context
           /\ frame[r].event_queue \in 1..Len(queues)
           /\ frame[r].context \in 1..Len(contexts)
           /\ \A i \in 1..Len(queues[frame[r].event_queue]) :
                  queues[frame[r].event_queue][i].by = r
           /\ contexts[frame[r].context]._user_text = SentText(input[r])
           /\ contexts[frame[r].context].task_id = frame[r].task_id
           /\ ~Answered(r) => queues[frame[r].event_queue] = <<>>
           /\ Answered(r) => /\ Len(queues[frame[r].event_queue]) = 1
                             /\ ResultText(response[r]) \in OwnTexts(r, frame[r].event_queue)

\* a request that started later has been answered while an earlier one still
\* awaits its weather call
C6_Witness ==
    \E r, p \in Reqs :
        /\ Executing(r) /\ Executing(p)
        /\ frame[r].event_queue < frame[p].event_queue
        /\ pc[r] = "weather" /\ Answered(p)
        /\ Len(queues[frame[p].event_queue]) = 1

\* request r awaits an outbound call
Waiting(r) == pc[r] \in {"weather", "model"}

\* C7: while a request awaits an outbound call, to the weather capability or
\* to the language model, every other request that has arrived or is being
\* received can take its next step
C7_OutboundCallsSuspend ==
    \A r, p \in Reqs :
        Waiting(r) /\ p # r /\ pc[p] \in {"new", "received"}
        => ENABLED (Receive(p) \/ Handle(p))

\* C8: tasks/get with id X is answered with a result of id X and
\* status.state "completed", whatever was sent or cancelled before, and the
\* step that answers it changes nothing but the state and response of that
\* request: no queue, context, frame or call
C8_GetIsSyntheticCompleted ==
    [][\A r \in Reqs :
          /\ input[r].method = "tasks/get" /\ input[r].params.shape # "other"
          /\ pc[r] = "received" /\ pc'[r] = "done"
          => /\ response'[r] = [jsonrpc |-> "2.0", id |-> input[r].id,
                                result |-> [id |-> input[r].params.id,
                                            status |-> [state |-> "completed"]]]
             /\ UNCHANGED <<queues, contexts, frame, busy, calls>>
             /\ \A p \in Reqs \ {r} : pc'[p] = pc[p] /\ response'[p] = response[p]]_vars

\* tasks/get has been answered for an id that a tasks/cancel was answered
\* for and that a send is in flight for
C8_Witness ==
    \E r, p \in Reqs :
        /\ Answered(r) /\ input[r].method = "tasks/get"
        /\ input[p].method \in {"tasks/cancel", "tasks/send"}
        /\ input[p].params.id = input[r].params.id
        /\ input[p].method = "tasks/cancel" => Answered(p)
        /\ input[p].method = "tasks/send" => Waiting(p)
        /\ response[r].result.status.state = "completed"
        /\ response[r].result.id = input[r].params.id

\* C9: tasks/cancel with id X is answered with a result of id X and
\* status.state "canceled" in a step that touches no queue, context, frame
\* or call and no other request; and every tasks/send, one for the same id
\* that was in flight when the cancel was answered included, is answered
\* with status.state "completed"
C9_CancelDoesNotInterrupt ==
    [][\A r \in Reqs :
          /\ (/\ input[r].method = "tasks/cancel" /\ input[r].params.shape # "other"
              /\ pc[r] = "received" /\ pc'[r] = "done"
              => /\ response'[r] = [jsonrpc |-> "2.0", id |-> input[r].id,
                                    result |-> [id |-> input[r].params.id,
                                                status |-> [state |-> "canceled"]]]
                 /\ UNCHANGED <<queues, contexts, frame, busy, calls>>
                 /\ \A p \in Reqs \ {r} : pc'[p] = pc[p] /\ response'[p] = response[p])
          /\ (/\ input[r].method = "tasks/send" /\ WellFormedParams(input[r].params)
              /\ pc[r] # "done" /\ pc'[r] = "done"
              => /\ IsResult(response'[r])
                 /\ response'[r].result.id = input[r].params.id
                 /\ response'[r].result.status.state = "completed")]_vars

\* a tasks/cancel for the id of a tasks/send has been answered "canceled"
\* while the send awaits its weather call
C9_Witness ==
    \E r, p \in Reqs :
        /\ input[r].method = "tasks/send" /\ input[p].method = "tasks/cancel"
        /\ input[p].params.id = input[r].params.id
        /\ Answered(p) /\ response[p].result.status.state = "canceled"
        /\ frame[p] = NoFrame
        /\ pc[r] = "weather"

\* the rules of the classifier in their order of priority
RuleOrder ==
    <<"compare", "forecast", "air_quality", "recommendations", "summary",
      "current", "bare_city", "default">>

KeywordRules == {"forecast", "air_quality", "recommendations", "summary", "current"}

\* the trigger of a rule matches the text of a query
Triggered(rule, text) ==
    CASE rule = "compare" ->
            \E k \in 1..Len(ComparePatterns) : Search(ComparePatterns[k], text).ok
      [] rule = "forecast" -> AnyIn(ForecastWords, Strip(Lower(text)))
      [] rule = "air_quality" -> AnyIn(AirQualityWords, Strip(Lower(text)))
      [] rule = "recommendations" -> AnyIn(RecommendationWords, Strip(Lower(text)))
      [] rule = "summary" -> AnyIn(SummaryWords, Strip(Lower(text)))
      [] rule = "current" -> AnyIn(CurrentWords, Strip(Lower(text)))
      [] rule = "bare_city" -> WordCount(text) <= 3
      [] rule = "default" -> TRUE

\* the rule emits an intent: its trigger matches and, for a keyword rule and
\* the bare-city rule, a city is extracted
Emits(rule, text, city) ==
    Triggered(rule, text) /\ (rule \in KeywordRules \cup {"bare_city"} => Truthy(city))

\* the first rule, in the order of priority, that emits an intent for the
\* text whose extracted city is city
WinningRule(text, city) ==
    RuleOrder[SetMin({k \in 1..Len(RuleOrder) : Emits(RuleOrder[k], text, city)})]

\* the winning rule of every text of the table
Winner == [t \in 1..Len(Queries) |-> WinningRule(Queries[t], _extract_city(Queries[t]))]

\* the city every text of the table gives
City == [t \in 1..Len(Queries) |-> _extract_city(Queries[t])]

\* some keyword rule is triggered by the text
KeywordTriggered == [t \in 1..Len(Queries) |-> \E rule \in KeywordRules : Triggered(rule, Queries[t])]

\* the skill a rule emits
SkillOf(rule) ==
    CASE rule = "bare_city" -> "current"
      [] rule = "default" -> "query"
      [] OTHER -> rule

\* execute has classified the query of request r
Classified(r) == frame[r].intent # NoIntent

\* C10: the intent _parse_intent returns is that of the first rule, in the
\* order compare, forecast, air_quality, recommendations, summary, current,
\* bare-city, default, whose trigger matches and for which (keyword rules
\* and bare-city rule) a city is extracted, with that city; so a keyword
\* rule that is triggered without a city emits nothing, and the bare-city
\* rule wins only when no keyword rule is triggered
C10_FirstRuleWins ==
    \A r \in Reqs :
        Classified(r)
        => LET t == frame[r].query
               rule == Winner[t]
           IN /\ frame[r].intent.skill = SkillOf(rule)
              /\ rule \in KeywordRules \cup {"bare_city"}
                     => frame[r].intent.city = City[t].text
              /\ rule = "default" => frame[r].intent.question = Queries[t]
              /\ rule = "bare_city" => ~KeywordTriggered[t]
              /\ ~Truthy(City[t]) => frame[r].intent.skill \in {"compare", "query"}

\* a text that triggers a keyword rule ("forecast") and gives no city has
\* fallen through to the default rule
C10_Witness ==
    \E r \in Reqs :
        /\ Classified(r)
        /\ KeywordTriggered[frame[r].query] /\ ~Truthy(City[frame[r].query])
        /\ frame[r].intent.skill = "query"

\* the rules whose trigger matches, for every text of the table
TriggeredBy ==
    [t \in 1..Len(Queries) |-> {rule \in KeywordRules \cup {"compare"} : Triggered(rule, Queries[t])}]

\* the keyword groups in the order of the code
KeywordOrder == <<"forecast", "air_quality", "recommendations", "summary", "current">>

\* the first keyword group, in the order of the code, that text t triggers
FirstGroup(t) == KeywordOrder[SetMin({k \in 1..Len(KeywordOrder) : KeywordOrder[k] \in TriggeredBy[t]})]

\* text t holds a keyword of some group and gives a city
KeywordAndCity(t) == TriggeredBy[t] \cap KeywordRules # {} /\ Truthy(City[t])

\* C11 as stated: a query that holds a keyword of a group and gives a city
\* is classified as that group's skill, unless a compare pattern matches it,
\* and then as compare
C11_KeywordGroupUnlessCompare ==
    \A r \in Reqs :
        Classified(r)
        => \A group \in KeywordRules :
               group \in TriggeredBy[frame[r].query] /\ Truthy(City[frame[r].query])
               => frame[r].intent.skill =
                      IF "compare" \in TriggeredBy[frame[r].query] THEN "compare" ELSE group

\* C11: a query that holds a keyword of some group and gives a city is
\* classified as compare when a compare pattern matches it, and otherwise as
\* the skill of the first group, in the order forecast, air_quality,
\* recommendations, summary, current, of which it holds a keyword, with the
\* extracted city; a later group of which it also holds a keyword loses
C11_FirstKeywordGroupWins ==
    \A r \in Reqs :
        Classified(r) /\ KeywordAndCity(frame[r].query)
        => IF "compare" \in TriggeredBy[frame[r].query]
           THEN frame[r].intent.skill = "compare"
           ELSE /\ frame[r].intent.skill = FirstGroup(frame[r].query)
                /\ frame[r].intent.city = City[frame[r].query].text

\* a text with keywords of two groups and a city ("forecast for London air
\* quality") has been classified as the earlier group
C11_Witness ==
    \E r \in Reqs :
        /\ Classified(r) /\ KeywordAndCity(frame[r].query)
        /\ {"forecast", "air_quality"} \subseteq TriggeredBy[frame[r].query]
        /\ "compare" \notin TriggeredBy[frame[r].query]
        /\ frame[r].intent.skill = "forecast"

\* " day forecast for "
DayForecastFor == <<32,100,97,121,32,102,111,114,101,99,97,115,116,32,102,111,114,32>>

\* the N of a text of the form "<N> day forecast for <city>", 1 <= N <= 9;
\* 0 for any other text
DayCount(text) ==
    IF Len(text) > 19 /\ text[1] \in 49..57 /\ SubSeq(text, 2, 19) = DayForecastFor
    THEN text[1] - 48 ELSE 0

\* the N and the city of every text of the table
DaysAsked == [t \in 1..Len(Queries) |-> DayCount(Queries[t])]

CityAsked == [t \in 1..Len(Queries) |-> SubSeq(Queries[t], 20, Len(Queries[t]))]

\* the forecast text request r was answered with
ForecastAnswer(r) ==
    /\ Answered(r) /\ IsSend(input[r]) /\ IsResult(response[r])
    /\ ResultText(response[r]).tag = "forecast"

Words == [t \in 1..Len(Queries) |-> WordCount(Queries[t])]

\* no compare pattern matches text t and no keyword rule emits an intent
\* for it
FallsThrough(t) == "compare" \notin TriggeredBy[t] /\ ~KeywordAndCity(t)

\* C13: when no compare pattern matches and no keyword rule emits an intent,
\* _parse_intent returns current{city} if a city is extracted and the text
\* has at most 3 whitespace-separated words, and otherwise query{question}
\* with the text as it was given; so a text that gives no city and holds no
\* keyword yields query (a compare pattern can match such a text, "cats vs
\* dogs", which is then compare: the premise excludes it)
C13_BareCityOrDefault ==
    \A r \in Reqs :
        Classified(r) /\ FallsThrough(frame[r].query)
        => /\ frame[r].intent =
                  IF Truthy(City[frame[r].query]) /\ Words[frame[r].query] <= 3
                  THEN Intent("current", City[frame[r].query].text, 0, <<>>, <<>>, <<>>)
                  ELSE Intent("query", <<>>, 0, <<>>, <<>>, Queries[frame[r].query])
           /\ ~Truthy(City[frame[r].query]) /\ TriggeredBy[frame[r].query] = {}
                  => frame[r].intent.skill = "query"

\* a text of more than three words that gives a city and holds no keyword
\* ("Is it a good day for hiking in Denver?") has been classified as a
\* query whose question is the text
C13_Witness ==
    \E r \in Reqs :
        /\ Classified(r) /\ FallsThrough(frame[r].query)
        /\ Truthy(City[frame[r].query]) /\ Words[frame[r].query] > 3
        /\ frame[r].intent.skill = "query"
        /\ frame[r].intent.question = Queries[frame[r].query]

\* execute has run for request r (its handler constructed a context)
Executes(r) == frame[r].context # 0

\* the query execute extracted for request r is empty or only whitespace
BlankQuery(r) == Len(Strip(Chars(frame[r].query))) = 0

\* C14: when the extracted query is empty or only whitespace, execute
\* enqueues exactly one event, carrying the help text, and returns at once:
\* the classifier has not run and no call of the weather agent was made or
\* is awaited
C14_BlankQueryGetsHelp ==
    \A r \in Reqs :
        Executes(r) /\ BlankQuery(r)
        => /\ pc[r] = "done"
           /\ Len(queues[frame[r].event_queue]) = 1
           /\ queues[frame[r].event_queue][1].parts = <<TextPart(_get_help_message)>>
           /\ frame[r].intent = NoIntent
           /\ frame[r].run = NoRun /\ calls[r] = <<>>
           /\ ResultText(response[r]) = _get_help_message

\* a send of a text of spaces only has been answered with the help text
C14_Witness ==
    \E r \in Reqs :
        /\ Executes(r) /\ BlankQuery(r) /\ frame[r].query # 0
        /\ Answered(r) /\ ResultText(response[r]) = _get_help_message

\* the five sources of _extract_query in their order, each by itself: what it
\* returns or raises for the context
Sources(context) ==
    <<OverrideText(context), get_user_input(context), PrimaryMessageText(context),
      InternalMessageText(context), RequestMessageText(context)>>

\* the non-empty text a source yields; 0 when it yields none or fails
Yield(v) == IF IsRaise(v) THEN 0 ELSE v.text

\* the sources that yield a non-empty text for the context
Yielding(context) == {k \in 1..5 : Yield(Sources(context)[k]) # 0}

\* the text of the first source that yields one; 0 when none does
FirstYield(context) ==
    IF Yielding(context) = {} THEN 0
    ELSE Yield(Sources(context)[SetMin(Yielding(context))])

\* C15: the query execute extracts is the text of the first of the five
\* sources (override text, accessor, context.message, context._message,
\* context.request.message) that yields a non-empty text, whatever the later
\* sources hold, and it is the text of that one source alone; it is empty
\* when no source yields one
C15_FirstSourceWins ==
    \A r \in Reqs :
        Executes(r) /\ pc[r] # "raised"
        => /\ frame[r].query = FirstYield(contexts[frame[r].context])
           /\ frame[r].query \in
                  {0} \cup {Yield(Sources(contexts[frame[r].context])[k]) : k \in 1..5}

\* the text of context._message has been extracted from a context whose
\* override is empty, whose accessor raises, whose message has no part
\* exposing text, and whose request holds another text
C15_Witness ==
    \E r \in Reqs :
        /\ Executes(r) /\ pc[r] = "done"
        /\ Yielding(contexts[frame[r].context]) = {4, 5}
        /\ IsRaise(get_user_input(contexts[frame[r].context]))
        /\ frame[r].query = 4

\* C16: _extract_query never raises: a step that fails (an attribute that is
\* missing or of the wrong shape, an accessor that throws) is passed over
\* and the next is tried, and the result is the empty string when every step
\* fails or yields nothing (the first step, which no handler guards, only
\* tests and reads an attribute)
C16_ExtractNeverRaises ==
    \A r \in Reqs :
        /\ pc[r] # "raised"
        /\ Executes(r) /\ Yielding(contexts[frame[r].context]) = {}
           => pc[r] = "done" /\ frame[r].query = 0

\* the empty string has been returned for a context every step but the
\* first of which fails
C16_Witness ==
    \E r \in Reqs :
        /\ Executes(r) /\ pc[r] = "done" /\ frame[r].query = 0
        /\ \A k \in 2..5 : k = 4 \/ IsRaise(Sources(contexts[frame[r].context])[k])
        /\ IsRaise(Sources(contexts[frame[r].context])[4])

\* the first non-empty text among the texts of the parts that have the
\* attribute (or key) name; the empty text when there is none
RECURSIVE FirstNonEmpty(_, _)
FirstNonEmpty(parts, name) ==
    IF Len(parts) = 0 THEN EmptyText
    ELSE IF HasAttr(Head(parts), name) /\ NonEmpty(Head(parts)[name])
    THEN Head(parts)[name]
    ELSE FirstNonEmpty(Tail(parts), name)

\* the roots of the parts that have one
Roots(parts) ==
    LET wrapped == SelectSeq(parts, LAMBDA part : HasAttr(part, "root"))
    IN [i \in 1..Len(wrapped) |-> wrapped[i].root]

\* the first of the texts that is not empty; the empty text when all are
FirstOf(texts) ==
    IF \E i \in 1..Len(texts) : NonEmpty(texts[i])
    THEN texts[SetMin({i \in 1..Len(texts) : NonEmpty(texts[i])})]
    ELSE EmptyText

\* the text of an event by the order of the four ways: (a) parts exposing
\* text, (b) parts exposing root.text, (c) the text of the event, (d) the
\* dicts with a text key in the parts of its dump
TextInOrder(event) ==
    FirstOf(<<IF HasAttr(event, "parts") THEN FirstNonEmpty(event.parts, "text") ELSE EmptyText,
              IF HasAttr(event, "parts") THEN FirstNonEmpty(Roots(event.parts), "text")
              ELSE EmptyText,
              IF HasAttr(event, "text") THEN event.text ELSE EmptyText,
              IF HasAttr(event, "model_dump") /\ HasAttr(event.model_dump, "parts")
              THEN FirstNonEmpty(event.model_dump.parts, "text") ELSE EmptyText>>)

\* the handler of request r has answered from the events of a sink
Collected(r) == pc[r] = "done" /\ frame[r].event_queue # 0

\* the events of the sink of request r
Sink(r) == queues[frame[r].event_queue]

LastCall(r) == calls[r][Len(calls[r])]

\* request r is a send that was answered after its call at step returned
\* with outcome o
AnsweredAfter(r, step, o) ==
    /\ Answered(r) /\ IsSend(input[r]) /\ Len(calls[r]) > 0
    /\ LastCall(r).step = step /\ LastCall(r).outcome = o

\* C18: when get_current_weather was dispatched and the weather lookup
\* failed with HTTP 404, the response text is the "City '<city>' not found"
\* message for the city looked up, and not the generic "Error fetching
\* weather" message, which every other failure of the lookup gets
C18_CurrentNotFound ==
    \A r \in Reqs :
        /\ AnsweredAfter(r, "current.weather", "e404")
           => /\ ResultText(response[r]).tag = "current.not_found"
              /\ ResultText(response[r]).city = LastCall(r).city
        /\ AnsweredAfter(r, "current.weather", "err")
           => ResultText(response[r]).tag = "current.error"

\* a send classified as current ("Tokyo") has been answered with the
\* not-found text after its lookup failed with 404
C18_Witness ==
    \E r \in Reqs :
        /\ AnsweredAfter(r, "current.weather", "e404")
        /\ frame[r].intent.skill = "current"
        /\ ResultText(response[r]) = Msg("current.not_found", frame[r].intent.city, 0, {})

\* the texts that say the city was not found
NotFoundTexts == {"current.not_found", "forecast.not_found", "air_quality.not_found"}

\* the weather capability reported to request r that the city does not
\* exist: a lookup by name failed with HTTP 404, or the geocoding of the
\* air-quality skill found no place of that name
NotFoundReported(r) ==
    /\ Answered(r) /\ IsSend(input[r]) /\ Len(calls[r]) > 0
    /\ frame[r].intent.skill \notin {"", "query"}
    /\ \/ LastCall(r).step \in CitySteps /\ LastCall(r).outcome = "e404"
       \/ LastCall(r).step = "air.geocode" /\ LastCall(r).outcome = "empty"

\* C19: for every skill that takes a city (current, forecast, air_quality,
\* recommendations, compare, summary), when the weather capability reports
\* that the city was not found, the response text is a not-found message,
\* not the generic error message of the skill
C19_EverySkillReportsNotFound ==
    \A r \in Reqs :
        NotFoundReported(r) => ResultText(response[r]).tag \in NotFoundTexts

\* the air-quality lookups of the summary skill
AirQualitySteps == {"summary.geocode", "summary.pollution"}

\* C20: in get_weather_summary a failure of the geocode lookup or of the
\* air-quality lookup only omits the air-quality section: the response is
\* the summary with its current-conditions and forecast sections, not an
\* error message
C20_SummarySurvivesAirQualityFailure ==
    \A r \in Reqs :
        /\ Answered(r) /\ IsSend(input[r])
        /\ \E i \in 1..Len(calls[r]) :
               calls[r][i].step \in AirQualitySteps /\ calls[r][i].outcome \in {"e404", "err"}
        => /\ ResultText(response[r]).tag = "summary"
           /\ {"current", "forecast"} \subseteq ResultText(response[r]).sections
           /\ "air_quality" \notin ResultText(response[r]).sections

\* the outbound calls of request r that failed
FailedCalls(r) == {i \in 1..Len(calls[r]) : calls[r][i].outcome \in FailureOutcomes}

\* the call request r is awaiting, as an entry of calls
AwaitedCall(r) ==
    [step |-> frame[r].run.step, city |-> CallCity(frame[r].run)]

\* request r awaits an outbound call
Calling(r) == pc[r] \in {"weather", "model"}

\* C21: within a turn a failed outbound call is never issued again (the same
\* operation for the same city), and once an outbound call has failed the
\* turn ends with a text for the user: no outbound call follows the failed
\* one
C21_FailureEndsTurn ==
    \A r \in Reqs :
        \A i \in FailedCalls(r) :
            /\ \A j \in (i + 1)..Len(calls[r]) :
                   [step |-> calls[r][j].step, city |-> calls[r][j].city]
                       # [step |-> calls[r][i].step, city |-> calls[r][i].city]
            /\ Calling(r)
               => AwaitedCall(r) # [step |-> calls[r][i].step, city |-> calls[r][i].city]
            /\ i = Len(calls[r])
            /\ Answered(r)
            /\ NonEmpty(ResultText(response[r]))

\* the parts whose type field or whose kind field equals "text"
TextParts(parts) ==
    {i \in 1..Len(parts) : parts[i].type = "text" \/ parts[i].kind = "text"}

\* the text of the first of them (0, the empty text, when there is none or
\* when it has no text)
FirstTextPartText(parts) ==
    IF TextParts(parts) = {} THEN 0
    ELSE LET part == parts[SetMin(TextParts(parts))]
         IN IF part.has_text THEN part.text ELSE 0

\* request r is an answered tasks/send with well-formed params
AnsweredSend(r) ==
    /\ Answered(r) /\ input[r].shape = "dict" /\ input[r].method = "tasks/send"
    /\ WellFormedParams(input[r].params)

\* C22: the user text tasks/send hands to the executor is the text of the
\* first part of params.message.parts whose type field or whose kind field
\* equals "text", whatever the other field holds
C22_TextOfFirstTypeOrKindText ==
    \A r \in Reqs :
        AnsweredSend(r)
        => /\ frame[r].context # 0
           /\ contexts[frame[r].context]._user_text
                  = FirstTextPartText(input[r].params.message.parts)

\* "in", "for", "at"
Prepositions == {<<105,110>>, <<102,111,114>>, <<97,116>>}

\* a letter
IsLetter(c) == c \in 65..90 \cup 97..122

\* the places of text, up to place e, where a preposition stands as a word
\* of its own followed by a space: the place after that space
AfterPrepositions(text, e) ==
    {j \in 2..e : \E p \in Prepositions :
         LET i == j - Len(p) - 1
         IN /\ i >= 1 /\ text[j - 1] = 32
            /\ Lower(SubSeq(text, i, j - 2)) = p
            /\ (i = 1 \/ text[i - 1] = 32)}

\* text ends with "<preposition> <City>, <CC>": <City> the letters and spaces
\* between the last such preposition and the comma, <CC> two capital letters
CountryCoded(text) ==
    LET n == Len(text)
        starts == IF n >= 6 THEN AfterPrepositions(text, n - 4) ELSE {}
    IN /\ starts # {}
       /\ text[n - 3] = 44 /\ text[n - 2] = 32
       /\ text[n - 1] \in 65..90 /\ text[n] \in 65..90
       /\ \A k \in SetMax(starts)..(n - 4) : IsLetter(text[k]) \/ text[k] = 32
       /\ IsLetter(text[SetMax(starts)]) /\ IsLetter(text[n - 4])

\* "<City>,<CC>" of such a text
CityAndCode(text) ==
    LET n == Len(text)
    IN SubSeq(text, SetMax(AfterPrepositions(text, n - 4)), n - 4)
           \o <<44>> \o SubSeq(text, n - 1, n)

\* for every text of the table: whether it holds a country-coded city
\* expression, and the "<City>,<CC>" it names
IsCountryCoded == [t \in 1..Len(Queries) |-> CountryCoded(Queries[t])]

CityAndCodeOf == [t \in 1..Len(Queries) |-> IF IsCountryCoded[t] THEN CityAndCode(Queries[t]) ELSE <<>>]

\* C23: for every text holding a country-coded city expression
\* "(in|for|at) <City>, <CC>" with a two-letter code, _extract_city returns
\* "<City>,<CC>", and a keyword rule that emits an intent for the text
\* carries that city
C23_CountryCodedCity ==
    \A r \in Reqs :
        Classified(r) /\ IsCountryCoded[frame[r].query]
        => /\ City[frame[r].query] = Str(CityAndCodeOf[frame[r].query])
           /\ frame[r].intent.skill \in KeywordRules
                  => frame[r].intent.city = CityAndCodeOf[frame[r].query]

\* the outbound calls of each operation of the weather agent, the first one
\* first
OperationSteps ==
    [current |-> <<"current.weather">>,
     forecast |-> <<"forecast.forecast">>,
     air_quality |-> <<"air.geocode", "air.pollution">>,
     recommendations |-> <<"rec.weather", "rec.ai">>,
     compare |-> <<"compare.first", "compare.second">>,
     summary |-> <<"summary.weather", "summary.forecast", "summary.geocode",
                   "summary.pollution", "summary.ai">>,
     query |-> <<"query.extract", "query.weather", "query.answer">>]

\* the texts each operation returns
OperationTexts ==
    [current |-> {"current", "current.not_found", "current.error"},
     forecast |-> {"forecast", "forecast.not_found", "forecast.error"},
     air_quality |-> {"air_quality", "air_quality.not_found", "air_quality.error"},
     recommendations |-> {"recommendations", "recommendations.error"},
     compare |-> {"compare", "compare.error"},
     summary |-> {"summary", "summary.error"},
     query |-> {"answer", ""}]

\* the steps of the outbound calls request r has issued, in order: those
\* that returned and the one it awaits
Issued(r) ==
    [i \in 1..Len(calls[r]) |-> calls[r][i].step]
        \o (IF Calling(r) THEN <<frame[r].run.step>> ELSE <<>>)

\* the arguments the operation of request r was invoked with are the fields
\* of its intent (the forecast keeps its days, clamped on entry; the
\* question of a query is the text as it was given)
InvokedWith(r, intent) ==
    LET first == IF Len(calls[r]) > 0 THEN calls[r][1]
                 ELSE [step |-> frame[r].run.step, city |-> CallCity(frame[r].run)]
    IN CASE intent.skill = "compare" ->
                /\ first.city = intent.city1
                /\ Calling(r) => frame[r].run.city2 = intent.city2
                /\ \A i \in 1..Len(calls[r]) :
                       calls[r][i].step = "compare.second" => calls[r][i].city = intent.city2
         [] intent.skill = "query" ->
                /\ intent.question = Queries[frame[r].query]
                /\ Calling(r) => frame[r].run.question = frame[r].query
         [] intent.skill = "forecast" ->
                /\ first.city = intent.city
                /\ Calling(r) => frame[r].run.days = Clamp(intent.days)
         [] OTHER -> first.city = intent.city

LeadingDigits(text) ==
    SubSeq(text, 1, SetMax({0} \cup {k \in 1..Len(text) : \A i \in 1..k : text[i] \in 48..57}))

\* some character of the text is a digit
HasDigit(text) == \E i \in 1..Len(text) : text[i] \in 48..57

\* the number a sequence of digits writes
RECURSIVE Number(_)
Number(ds) ==
    IF Len(ds) = 0 THEN 0
    ELSE 10 * Number(SubSeq(ds, 1, Len(ds) - 1)) + (ds[Len(ds)] - 48)

\* the count of days a text carries: the N of a text beginning "<N> day",
\* no count (-1) for a text without digits
CountCarried(text) ==
    IF Len(LeadingDigits(text)) > 0
       /\ SubSeq(text, Len(LeadingDigits(text)) + 1, Len(LeadingDigits(text)) + 4)
              = <<32,100,97,121>>
    THEN Number(LeadingDigits(text))
    ELSE -1

\* the count of every text of the table, and whether the table is of the
\* two kinds of text only: a count first, or no digit at all
Carried == [t \in 1..Len(Queries) |-> CountCarried(Queries[t])]

CountFirstOrNone == \A t \in 1..Len(Queries) : Carried[t] = -1 => ~HasDigit(Queries[t])

\* min(max(n, 1), 5)
Within1To5(n) == CHOOSE d \in 1..5 : (n < 1 /\ d = 1) \/ (n > 5 /\ d = 5) \/ d = n

\* the days value of the forecast that request r asks for or was answered
\* with is days
ForecastDays(r, days) ==
    /\ pc[r] = "weather" /\ frame[r].run.skill = "forecast" => frame[r].run.days = days
    /\ ForecastAnswer(r) => ResultText(response[r]).days = days

\* C26: in every forecast turn the days value the forecast is formatted
\* with is min(max(N,1),5) when the text carried the count N >= 0, and 3
\* when it carried none; no forecast, that of the summary included, is
\* formatted with a days value outside 1..5
C26_ForecastDaysWithin1To5 ==
    /\ CountFirstOrNone
    /\ \A r \in Reqs :
        /\ Classified(r) /\ frame[r].intent.skill = "forecast"
           => ForecastDays(r, IF Carried[frame[r].query] >= 0
                              THEN Within1To5(Carried[frame[r].query]) ELSE 3)
        /\ Answered(r) /\ IsSend(input[r]) /\ IsResult(response[r])
           /\ ResultText(response[r]).tag \in {"forecast", "summary"}
           => ResultText(response[r]).days \in 1..5

\* "25 day forecast for Oslo" has been answered with a forecast of 5 days
C26_Witness ==
    \E r \in Reqs :
        /\ Classified(r) /\ Carried[frame[r].query] = 25
        /\ ForecastAnswer(r) /\ ResultText(response[r]).days = 5

\* " weather"
SpaceWeather == <<32,119,101,97,116,104,101,114>>

\* text is "<City> weather": <City> one word of letters, or two with one
\* space between them
CityWeather(text) ==
    LET n == Len(text) - Len(SpaceWeather)
    IN /\ n >= 1
       /\ SubSeq(text, n + 1, Len(text)) = SpaceWeather
       /\ \A i \in 1..n : IsLetter(text[i]) \/ text[i] = 32
       /\ IsLetter(text[1]) /\ IsLetter(text[n])
       /\ Cardinality({i \in 1..n : text[i] = 32}) <= 1

\* whether each text of the table is of that form, and its <City>
IsCityWeather == [t \in 1..Len(Queries) |-> CityWeather(Queries[t])]

CityOfCityWeather ==
    [t \in 1..Len(Queries) |-> SubSeq(Queries[t], 1, Len(Queries[t]) - Len(SpaceWeather))]

\* C27: for every text "<City> weather", <City> one or two words of letters,
\* that no compare pattern matches, _parse_intent returns current with
\* city = <City>
C27_CityWeatherIsCurrent ==
    \A r \in Reqs :
        /\ Classified(r) /\ IsCityWeather[frame[r].query]
        /\ "compare" \notin TriggeredBy[frame[r].query]
        => frame[r].intent =
               Intent("current", CityOfCityWeather[frame[r].query], 0, <<>>, <<>>, <<>>)

\* the turn of request r is a turn of the query operation
QueryTurn(r) == Classified(r) /\ frame[r].intent.skill = "query"

\* C28: query issues exactly two language-model calls, the entity
\* extraction first and the answer generation last, and between them a
\* current-weather lookup only when the extraction call succeeded and named
\* a city other than "NONE": a failed extraction call causes no lookup
C28_QueryCallsAndLookup ==
    \A r \in Reqs :
        QueryTurn(r)
        => /\ Issued(r)[1] = "query.extract"
           /\ \A i \in 2..Len(Issued(r)) : Issued(r)[i] # "query.extract"
           /\ Answered(r)
              => /\ Issued(r) \in {<<"query.extract", "query.answer">>,
                                   <<"query.extract", "query.weather", "query.answer">>}
           /\ \A i \in 1..Len(Issued(r)) :
                  Issued(r)[i] = "query.weather"
                  => /\ i = 2
                     /\ calls[r][1].outcome = "text"

\* a lookup of get_current_weather or get_forecast for request r has failed
\* and the skill has returned
LookupFailed(r) ==
    /\ pc[r] = "done" /\ Len(calls[r]) = 1
    /\ "status" \in DOMAIN calls[r][1]
    /\ calls[r][1].step \in {"current.weather", "forecast.forecast"}

\* C29: get_current_weather and get_forecast return the not-found message
\* only if the weather capability reported not-found (HTTP 404): a failure
\* of any other kind (authentication failure, timeout, server error), for
\* any city, yields the generic error message of the skill
C29_NotFoundOnlyWhenReported ==
    \A r \in Reqs :
        LookupFailed(r)
        => /\ response[r].text.tag \in {"current.not_found", "forecast.not_found"}
              => calls[r][1].status = 404
           /\ calls[r][1].status # 404
              => response[r].text.tag \in {"current.error", "forecast.error"}

\* the request carries the configured key in the x-sn-apikey header, in the
\* x-api-key header, or in the Authorization header, bare or after a scheme
CarriesKey(headers) ==
    \/ headers.x_sn_apikey = API_KEY
    \/ headers.x_api_key = API_KEY
    \/ \E k \in 0..Len(headers.authorization) :
           SubSeq(headers.authorization, k + 1, Len(headers.authorization)) = API_KEY

\* the executor was given the message of HTTP request r
ReachedExecutor(r) == input[r].shape = "http" /\ r \in 1..Len(contexts)

\* C30: with A2A_API_KEY configured, the application built by create_app
\* lets a JSON-RPC request reach the agent executor only if the request
\* carries the configured key in the x-sn-apikey, x-api-key or Authorization
\* header, the check verify_api_key makes
C30_KeyRequiredForDispatch ==
    \A r \in Reqs :
        Len(API_KEY) > 0 /\ ReachedExecutor(r)
        => CarriesKey(input[r].headers) /\ verify_api_key(input[r].headers)

====
